---------------------------- MODULE LoopControl ----------------------------
(***************************************************************************)
(* The operator's control of the continuous supervisor: the commands start, *)
(* pause, resume and stop (loop_control.py, cli.py, console.py, web_api.py, *)
(* tui_controller.py) against the life of the supervisor processes          *)
(* (supervisor.py), which meet only in two single-row tables and in the     *)
(* claims of the work items.                                                *)
(*                                                                          *)
(* Every supervisor that a start launches has the same worker id, so a      *)
(* claim names no process: a starting supervisor tells its predecessors'    *)
(* claims from its own by their time.                                       *)
(*                                                                          *)
(* A process that has ended answers the probe of its id until whoever       *)
(* launched it has ended too or has waited for it: a command that starts    *)
(* the loop and exits leaves no such process behind, the terminal interface *)
(* and the web server, which stay, do.                                      *)
(*                                                                          *)
(* A process slot is free again once its id no longer answers; ids are not  *)
(* reused before.  A batch is one item; the phases of the runtime row are   *)
(* told apart only as "stopped" or not; the bookkeeping of a round          *)
(* (recovery of expired claims, promotion, analysis) is in WorkQueue, and   *)
(* the planning and analysis that run in the background are one dispatch    *)
(* per process.                                                             *)
(***************************************************************************)
EXTENDS Naturals

CONSTANTS
  Processes,      \* slots for supervisor processes
  Operators,      \* commands that may be under way at the same time
  Items,          \* work items the pool keeps offering
  NoProcess,      \* a process id that does not answer
  Unwaited,       \* the id of an ended process that still answers
  NoItem,
  MaxCrashes,     \* bound on processes that die without a graceful stop
  MaxFailures     \* bound on launches that raise

ASSUME LoopAssumption ==
  /\ {NoProcess, Unwaited} \cap Processes = {}
  /\ NoProcess # Unwaited
  /\ NoItem \notin Items
  /\ MaxCrashes \in Nat /\ MaxFailures \in Nat

VARIABLES
  control,    \* operator_control.desired_state
  runtime,    \* the single supervisor_runtime row: process id and phase
  stage,      \* where each process is in BatchSupervisor.run; "none": a free slot
  executing,  \* the item each process is executing, or NoItem
  beat,       \* the phase each process's dispatches repeat: that of the
              \* round's batch (fore) and that in the background (back)
  claimed,    \* work_items: the items in state running
  older,      \* per process, the claims made before its started_at
  start,      \* the start command each operator is in the middle of
  late,       \* ghost: claims of each process since control last was "running"
  solo,       \* ghost: no other process has lived since this one was built
  crashes,    \* count of crashes, for the bound
  failures    \* count of failed launches, for the bound

vars == <<control, runtime, stage, executing, beat, claimed, older, start,
          late, solo, crashes, failures>>

Controls == {"running", "paused", "stop_requested"}
Stages == {"none", "launched", "built", "recovered", "round", "working",
           "stopping", "failing"}

(* A start command between its transactions: whether it found a supervisor  *)
(* running, and the control state a failed launch puts back.                *)
Starts == [at: {"idle", "read", "set", "launch", "restore"}, found: BOOLEAN,
           previous: Controls \ {"running"}]

Idle == [at |-> "idle", found |-> FALSE, previous |-> "paused"]

Alive(p) == stage[p] # "none"
Looping(p) == stage[p] \in {"round", "working", "stopping"}

(* The dispatches a process may be in the middle of.                        *)
Beats == {"fore", "back"}
Quiet == [d \in Beats |-> "none"]

(* Mutant: the row's process is not probed. *)
ProbeSlip == runtime.phase # "stopped"

(* SupervisorLoopControl._runtime: the row names a process that answers and *)
(* a phase other than "stopped".  process_is_alive probes with signal 0,    *)
(* which succeeds for a process that has ended and is not waited for.       *)
Running == runtime.pid # NoProcess /\ runtime.phase # "stopped"

TypeOK ==
  /\ control \in Controls
  /\ runtime \in [pid: Processes \cup {NoProcess, Unwaited},
                      phase: {"live", "stopped"}]
  /\ stage \in [Processes -> Stages]
  /\ executing \in [Processes -> Items \cup {NoItem}]
  /\ beat \in [Processes -> [Beats -> {"none", "live", "stopped"}]]
  /\ claimed \in SUBSET Items
  /\ older \in [Processes -> SUBSET Items]
  /\ start \in [Operators -> Starts]
  /\ late \in [Processes -> Nat]
  /\ solo \in [Processes -> BOOLEAN]
  /\ crashes \in 0..MaxCrashes /\ failures \in 0..MaxFailures

(* The database is initialised: control is "running", nobody has reported.  *)
Init ==
  /\ control = "running"
  /\ runtime = [pid |-> NoProcess, phase |-> "stopped"]
  /\ stage = [p \in Processes |-> "none"]
  /\ executing = [p \in Processes |-> NoItem]
  /\ beat = [p \in Processes |-> Quiet]
  /\ claimed = {}
  /\ older = [p \in Processes |-> {}]
  /\ start = [o \in Operators |-> Idle]
  /\ late = [p \in Processes |-> 0]
  /\ solo = [p \in Processes |-> FALSE]
  /\ crashes = 0 /\ failures = 0

-----------------------------------------------------------------------------
(* The commands.                                                            *)

(* WorkflowDatabase.set_control_state: one transaction, no guard on the     *)
(* state it replaces.                                                       *)
SetControl(desired) ==
  /\ control' = desired
  /\ late' = IF desired = "running" THEN [p \in Processes |-> 0] ELSE late

(* pause and stop of the loop commands, and the control commands, which set *)
(* the intent and then only report.                                         *)
Command(desired) ==
  /\ SetControl(desired)
  /\ UNCHANGED <<runtime, stage, executing, beat, claimed, older, start, solo,
                 crashes, failures>>

(* start, before its write: it looks for a running supervisor ...           *)
StartProbes(o) ==
  /\ start[o].at = "idle"
  /\ start' = [start EXCEPT ![o].at = IF Running THEN "set" ELSE "read",
                           ![o].found = Running]
  /\ UNCHANGED <<control, runtime, stage, executing, beat, claimed, older,
                 late, solo, crashes, failures>>

(* ... and reads the control state, which a start that finds none may have  *)
(* to put back: that state, or "paused" for "running".                      *)
StartReads(o) ==
  /\ start[o].at = "read"
  /\ start' = [start EXCEPT ![o].at = "set",
                           ![o].previous = IF control # "running" THEN control
                                           ELSE "paused"]
  /\ UNCHANGED <<control, runtime, stage, executing, beat, claimed, older,
                 late, solo, crashes, failures>>

(* start sets control to "running" and returns "already_running" when it    *)
(* had found a supervisor.                                                  *)
StartSets(o) ==
  /\ start[o].at = "set"
  /\ SetControl("running")
  /\ start' = [start EXCEPT ![o] =
                 IF start[o].found THEN Idle
                 ELSE [start[o] EXCEPT !.at = "launch"]]
  /\ UNCHANGED <<runtime, stage, executing, beat, claimed, older, solo,
                 crashes, failures>>

(* The launcher returns the id of a detached process.                       *)
Launches(o) ==
  /\ start[o].at = "launch"
  /\ \E p \in Processes :
       /\ stage[p] = "none"
       /\ stage' = [stage EXCEPT ![p] = "launched"]
  /\ start' = [start EXCEPT ![o] = Idle]
  /\ UNCHANGED <<control, runtime, executing, beat, claimed, older, late,
                 solo, crashes, failures>>

(* The launcher raises (bound: MaxFailures).                                *)
LaunchFails(o) ==
  /\ start[o].at = "launch"
  /\ failures < MaxFailures
  /\ failures' = failures + 1
  /\ start' = [start EXCEPT ![o].at = "restore"]
  /\ UNCHANGED <<control, runtime, stage, executing, beat, claimed, older,
                 late, solo, crashes>>

(* A start that could not launch puts the state back, whatever it is now.   *)
StartRestores(o) ==
  /\ start[o].at = "restore"
  /\ SetControl(start[o].previous)
  /\ start' = [start EXCEPT ![o] = Idle]
  /\ UNCHANGED <<runtime, stage, executing, beat, claimed, older, solo,
                 crashes, failures>>

-----------------------------------------------------------------------------
(* The supervisor process.                                                  *)

Reports(p, phase) == runtime' = [pid |-> p, phase |-> phase]

(* BatchSupervisor.__init__ takes started_at: every claim in the table is   *)
(* older than that.                                                         *)
Constructs(p) ==
  /\ stage[p] = "launched"
  /\ stage' = [stage EXCEPT ![p] = "built"]
  /\ older' = [older EXCEPT ![p] = claimed]
  /\ solo' = [q \in Processes |->
                IF q = p THEN \A r \in Processes \ {p} : ~Alive(r)
                ELSE FALSE]
  /\ UNCHANGED <<control, runtime, executing, beat, claimed, start, late,
                 crashes, failures>>

(* Mutant: the comparison with started_at is turned round. *)
CutoffSlip(p) ==
  /\ stage[p] = "built"
  /\ stage' = [stage EXCEPT ![p] = "recovered"]
  /\ claimed' = claimed \cap older[p]
  /\ older' = [q \in Processes |-> older[q] \cap older[p]]
  /\ UNCHANGED <<control, runtime, executing, beat, start, late, solo,
                 crashes, failures>>

(* recover_abandoned_claims(worker_id, started_at), the first step of run.  *)
Recovers(p) ==
  /\ stage[p] = "built"
  /\ stage' = [stage EXCEPT ![p] = "recovered"]
  /\ claimed' = claimed \ older[p]
  /\ older' = [q \in Processes |-> older[q] \ older[p]]
  /\ UNCHANGED <<control, runtime, executing, beat, start, late, solo,
                 crashes, failures>>

(* run announces the phase "starting" and enters its loop.                  *)
Announces(p) ==
  /\ stage[p] = "recovered"
  /\ stage' = [stage EXCEPT ![p] = "round"]
  /\ Reports(p, "live")
  /\ UNCHANGED <<control, executing, beat, claimed, older, start, late, solo,
                 crashes, failures>>

(* Mutant: a stop only rests, like a pause. *)
StopSlip(p) ==
  /\ stage[p] = "round"
  /\ Reports(p, "live")
  /\ stage' = [stage EXCEPT ![p] =
                 IF control = "running" THEN "working" ELSE "round"]
  /\ UNCHANGED <<control, executing, beat, claimed, older, start, late, solo,
                 crashes, failures>>

(* The head of run_round: the process reports that it is checking, reads    *)
(* the operator's intent once, and a paused or a stopping round ends there. *)
Checks(p) ==
  /\ stage[p] = "round"
  /\ Reports(p, "live")
  /\ \/ control = "paused" /\ UNCHANGED stage
     \/ control = "stop_requested" /\ stage' = [stage EXCEPT ![p] = "stopping"]
     \/ control = "running" /\ stage' = [stage EXCEPT ![p] = "working"]
  /\ UNCHANGED <<control, executing, beat, claimed, older, start, late, solo,
                 crashes, failures>>

(* Mutant: background work is handed over before the intent is read. *)
PendingFirstSlip(p) ==
  /\ stage[p] \in {"round", "working"} /\ executing[p] = NoItem
  /\ beat[p]["back"] = "none"
  /\ beat' = [beat EXCEPT ![p]["back"] = runtime.phase]
  /\ UNCHANGED <<control, runtime, stage, executing, claimed, older, start,
                 late, solo, crashes, failures>>

(* The round hands analysis or planning to the background; _dispatch reads  *)
(* the phase its heartbeat will repeat from the row, whoever wrote it.      *)
StartsBackground(p) ==
  /\ stage[p] = "working" /\ executing[p] = NoItem
  /\ beat[p]["back"] = "none"
  /\ beat' = [beat EXCEPT ![p]["back"] = runtime.phase]
  /\ UNCHANGED <<control, runtime, stage, executing, claimed, older, start,
                 late, solo, crashes, failures>>

(* RuntimeHeartbeat._pulse of a dispatch, at its start and then repeatedly. *)
Pulses(p) ==
  /\ \E d \in Beats : beat[p][d] # "none" /\ Reports(p, beat[p][d])
  /\ UNCHANGED <<control, stage, executing, beat, claimed, older, start, late,
                 solo, crashes, failures>>

(* The background dispatch returns.                                         *)
EndsBackground(p) ==
  /\ beat[p]["back"] # "none"
  /\ beat' = [beat EXCEPT ![p]["back"] = "none"]
  /\ UNCHANGED <<control, runtime, stage, executing, claimed, older, start,
                 late, solo, crashes, failures>>

(* claim_batch takes a ready item; the round then reports and executes it.  *)
(* The control state is not read again.                                     *)
Claims(p, i) ==
  /\ stage[p] = "working" /\ executing[p] = NoItem
  /\ i \notin claimed
  /\ claimed' = claimed \cup {i}
  /\ executing' = [executing EXCEPT ![p] = i]
  /\ late' = IF control = "running" THEN late
             ELSE [late EXCEPT ![p] = @ + 1]
  /\ Reports(p, "live")
  /\ UNCHANGED <<control, stage, beat, older, start, solo, crashes, failures>>

(* The batch is handed to the dispatcher; as in the background, _dispatch   *)
(* reads from the row the phase its heartbeat will repeat.                  *)
Dispatches(p) ==
  /\ executing[p] # NoItem /\ beat[p]["fore"] = "none"
  /\ beat' = [beat EXCEPT ![p]["fore"] = runtime.phase]
  /\ UNCHANGED <<control, runtime, stage, executing, claimed, older, start,
                 late, solo, crashes, failures>>

(* Mutant: the round goes on claiming while there is work. *)
DrainSlip(p) ==
  /\ executing[p] \in claimed /\ beat[p]["fore"] # "none"
  /\ beat' = [beat EXCEPT ![p]["fore"] = "none"]
  /\ claimed' = claimed \ {executing[p]}
  /\ older' = [q \in Processes |-> older[q] \ {executing[p]}]
  /\ executing' = [executing EXCEPT ![p] = NoItem]
  /\ Reports(p, "live")
  /\ UNCHANGED <<control, stage, start, late, solo, crashes, failures>>

(* The item's result is recorded: the guarded transition compares the state *)
(* of the row and never its claim, so it clears the item's present claim    *)
(* whichever process made it.  The round is over.                           *)
Finishes(p) ==
  /\ executing[p] \in claimed /\ beat[p]["fore"] # "none"
  /\ beat' = [beat EXCEPT ![p]["fore"] = "none"]
  /\ claimed' = claimed \ {executing[p]}
  /\ older' = [q \in Processes |-> older[q] \ {executing[p]}]
  /\ executing' = [executing EXCEPT ![p] = NoItem]
  /\ stage' = [stage EXCEPT ![p] = "round"]
  /\ Reports(p, "live")
  /\ UNCHANGED <<control, start, late, solo, crashes, failures>>

(* A round that claimed nothing reports "idle" and the loop goes round.     *)
EndsRound(p) ==
  /\ stage[p] = "working" /\ executing[p] = NoItem
  /\ stage' = [stage EXCEPT ![p] = "round"]
  /\ Reports(p, "live")
  /\ UNCHANGED <<control, executing, beat, claimed, older, start, late, solo,
                 crashes, failures>>

(* A stopping supervisor waits for its background work, reports "stopped"   *)
(* and exits.                                                               *)
Stops(p) ==
  /\ stage[p] = "stopping"
  /\ beat[p]["back"] = "none"
  /\ stage' = [stage EXCEPT ![p] = "none"]
  /\ runtime' = [pid |-> NoProcess, phase |-> "stopped"]
  /\ older' = [older EXCEPT ![p] = {}]
  /\ late' = [late EXCEPT ![p] = 0]
  /\ solo' = [solo EXCEPT ![p] = FALSE]
  /\ UNCHANGED <<control, executing, beat, claimed, start, crashes, failures>>

(* The process ends without a word: its claim stays, and so does the row,   *)
(* whose process id no longer answers, unless its launcher is still there.  *)
Dies(p) ==
  /\ stage' = [stage EXCEPT ![p] = "none"]
  /\ executing' = [executing EXCEPT ![p] = NoItem]
  /\ beat' = [beat EXCEPT ![p] = Quiet]
  /\ IF runtime.pid = p
     THEN \E id \in {NoProcess, Unwaited} :
            runtime' = [runtime EXCEPT !.pid = id]
     ELSE UNCHANGED runtime
  /\ older' = [older EXCEPT ![p] = {}]
  /\ late' = [late EXCEPT ![p] = 0]
  /\ solo' = [solo EXCEPT ![p] = FALSE]
  /\ UNCHANGED <<control, claimed, start, failures>>

(* The result of an item whose row is no longer running raises out of the   *)
(* round and of run.                                                        *)
LosesClaim(p) ==
  /\ executing[p] \notin claimed \cup {NoItem} /\ beat[p]["fore"] # "none"
  /\ stage' = [stage EXCEPT ![p] = "failing"]
  /\ executing' = [executing EXCEPT ![p] = NoItem]
  /\ beat' = [beat EXCEPT ![p]["fore"] = "none"]
  /\ UNCHANGED <<control, runtime, claimed, older, start, late, solo, crashes,
                 failures>>

(* The launcher of the ended process in the row ends too, or launches       *)
(* another, at which the interpreter waits for those that have ended.       *)
LauncherEnds ==
  /\ runtime.pid = Unwaited
  /\ runtime' = [runtime EXCEPT !.pid = NoProcess]
  /\ UNCHANGED <<control, stage, executing, beat, claimed, older, start, late,
                 solo, crashes, failures>>

(* The interpreter joins the threads of the background before it exits.     *)
Exits(p) ==
  /\ stage[p] = "failing" /\ beat[p]["back"] = "none"
  /\ Dies(p)
  /\ UNCHANGED crashes

(* The process is killed at any point (bound: MaxCrashes).                  *)
Crashes(p) ==
  /\ Alive(p)
  /\ crashes < MaxCrashes
  /\ crashes' = crashes + 1
  /\ Dies(p)

-----------------------------------------------------------------------------
Starting(o) ==
  \/ StartReads(o) \/ StartSets(o) \/ Launches(o) \/ LaunchFails(o)
  \/ StartRestores(o)

Runs(p) ==
  \/ Constructs(p) \/ Recovers(p) \/ Announces(p) \/ Checks(p)
  \/ Dispatches(p) \/ EndsRound(p) \/ Stops(p) \/ Exits(p)

Next ==
  \/ \E desired \in Controls : Command(desired)
  \/ LauncherEnds
  \/ \E o \in Operators : StartProbes(o) \/ Starting(o)
  \/ \E p \in Processes :
       \/ Runs(p) \/ StartsBackground(p) \/ Pulses(p) \/ EndsBackground(p)
       \/ Finishes(p) \/ LosesClaim(p) \/ Crashes(p)
       \/ \E i \in Items : Claims(p, i)

Spec == Init /\ [][Next]_vars

(* A command that has begun goes on, a live supervisor takes its next step, *)
(* and a dispatch, whose timeout is bounded, returns.  Nobody is obliged to *)
(* give a command.                                                          *)
Fairness ==
  /\ \A o \in Operators : WF_vars(Starting(o))
  /\ \A p \in Processes :
       /\ WF_vars(Runs(p)) /\ WF_vars(EndsBackground(p))
       /\ WF_vars(Finishes(p) \/ LosesClaim(p))

FairSpec == Spec /\ Fairness

-----------------------------------------------------------------------------
(* Safety                                                                   *)

(* After a pause or a stop a supervisor claims at most once more: the round *)
(* that had already read "running" (supervisor.py run_round reads the       *)
(* intent once, before the claim).                                          *)
OneLateClaim == \A p \in Processes : late[p] <= 1

(* The claims of a supervisor that died are ready again before the first    *)
(* round of the one that replaces it: while a supervisor is the only one    *)
(* since it was built, every claim in its loop is the claim of the item it  *)
(* is executing (recover_abandoned_claims at the head of run).              *)
SoloOwnsClaims ==
  \A p \in Processes :
    solo[p] /\ Looping(p) => claimed \subseteq {executing[p]}

-----------------------------------------------------------------------------
(* Liveness                                                                 *)

(* A stop that nobody takes back ends every supervisor, also one launched   *)
(* by a start that the stop overtook, and its background work first.        *)
StopEnds ==
  <>[](control = "stop_requested") =>
    <>[](\A p \in Processes : stage[p] = "none")

(* A pause that nobody takes back ends the execution and the background     *)
(* work of every supervisor, and none begins again.                         *)
PauseQuiets ==
  <>[](control = "paused") =>
    <>[](\A p \in Processes : executing[p] = NoItem /\ beat[p] = Quiet)

(* While the intent stays "running" and somebody keeps giving the start     *)
(* command, a supervisor serves from some point on, provided that no ended  *)
(* process stays unwaited for: a start that was told "already_running" by   *)
(* the row of a process that crashed, is stopping or failing, or had its    *)
(* row overwritten costs at most a later start.  Under a launcher that      *)
(* stays, the terminal interface for one, the row of a process that crashed *)
(* goes on answering and every start is told "already_running".             *)
KeptStarting ==
  /\ <>[](control = "running")
  /\ []<>(\E o \in Operators : start[o].at # "idle")
  /\ []<>(runtime.pid # Unwaited)
  => <>[](\E p \in Processes : stage[p] \notin {"none", "failing"})
=============================================================================
