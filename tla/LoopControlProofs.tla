------------------------- MODULE LoopControlProofs -------------------------
(***************************************************************************)
(* For any number of operators, supervisor processes and work items: how    *)
(* often a supervisor claims after a pause, and what a replacement inherits.*)
(***************************************************************************)
EXTENDS LoopControl, TLAPS

(* While control is "running" no claim counts as late.                      *)
RunningIsCounted == control = "running" => \A p \in Processes : late[p] = 0

(* A supervisor that has claimed late is not about to claim again.          *)
LateEndsRound ==
  \A p \in Processes :
    late[p] = 0 \/ (late[p] = 1 /\ ~(stage[p] = "working" /\ executing[p] = NoItem))

LateInv == RunningIsCounted /\ LateEndsRound

(* Only a round that is working executes.                                   *)
ExecutesWorking ==
  \A p \in Processes : executing[p] # NoItem => stage[p] = "working"

(* Whatever other process there is beside a lone one is still coming up.    *)
SoloIsAlone ==
  \A p, q \in Processes :
    solo[p] /\ q # p => stage[q] \in {"none", "launched"}

(* What the claims are, from the construction of a lone supervisor on.      *)
SoloInherits ==
  \A p \in Processes :
    solo[p] =>
      /\ stage[p] = "built" => claimed \subseteq older[p]
      /\ stage[p] = "recovered" => claimed = {}
      /\ Looping(p) => claimed \subseteq {executing[p]}

SoloInv == ExecutesWorking /\ SoloIsAlone /\ SoloInherits

-----------------------------------------------------------------------------
(* Every step keeps the type invariant.                                     *)
LEMMA TypeStep ==
  ASSUME TypeOK, [Next]_vars
  PROVE  TypeOK'
<1>0. CASE UNCHANGED vars
  BY <1>0 DEF vars, TypeOK, Controls, Stages, Starts, Idle, Beats, Quiet
<1>1. ASSUME NEW desired \in Controls, Command(desired) PROVE TypeOK'
  BY <1>1, LoopAssumption DEF Command, SetControl, Controls, TypeOK, Stages, Starts, Idle, Beats, Quiet
<1>2. ASSUME NEW o \in Operators, StartProbes(o) PROVE TypeOK'
  <2>1. start[o] \in Starts /\ Running \in BOOLEAN
    BY DEF TypeOK, Running
  <2>2. PICK at \in {"set", "read"}, found \in BOOLEAN :
          start' = [start EXCEPT ![o] = [start[o] EXCEPT !.at = at, !.found = found]]
    BY <1>2, <2>1 DEF StartProbes, TypeOK, Starts
  <2>3. [start[o] EXCEPT !.at = at, !.found = found] \in Starts
    BY <2>1, <2>2 DEF Starts
  <2>4. start' \in [Operators -> Starts]
    BY <2>2, <2>3 DEF TypeOK
  <2>5. QED
    BY <1>2, <2>4 DEF StartProbes, TypeOK
<1>3. ASSUME NEW o \in Operators, StartSets(o) PROVE TypeOK'
  BY <1>3, LoopAssumption DEF StartSets, SetControl, TypeOK, Controls, Stages, Starts, Idle, Beats, Quiet
<1>4. ASSUME NEW o \in Operators, Launches(o) PROVE TypeOK'
  BY <1>4, LoopAssumption DEF Launches, TypeOK, Controls, Stages, Starts, Idle, Beats, Quiet
<1>5. ASSUME NEW o \in Operators, LaunchFails(o) PROVE TypeOK'
  BY <1>5, LoopAssumption DEF LaunchFails, TypeOK, Controls, Stages, Starts, Idle, Beats, Quiet
<1>6. ASSUME NEW o \in Operators, StartRestores(o) PROVE TypeOK'
  BY <1>6, LoopAssumption DEF StartRestores, SetControl, TypeOK, Controls, Stages, Starts, Idle, Beats, Quiet
<1>7. ASSUME NEW p \in Processes, Constructs(p) PROVE TypeOK'
  BY <1>7, LoopAssumption DEF Constructs, Alive, TypeOK, Controls, Stages, Starts, Idle, Beats, Quiet
<1>8. ASSUME NEW p \in Processes, Recovers(p) PROVE TypeOK'
  BY <1>8, LoopAssumption DEF Recovers, TypeOK, Controls, Stages, Starts, Idle, Beats, Quiet
<1>9. ASSUME NEW p \in Processes, Announces(p) PROVE TypeOK'
  BY <1>9, LoopAssumption DEF Announces, Reports, TypeOK, Controls, Stages, Starts, Idle, Beats, Quiet
<1>10. ASSUME NEW p \in Processes, Checks(p) PROVE TypeOK'
  BY <1>10, LoopAssumption DEF Checks, Reports, TypeOK, Controls, Stages, Starts, Idle, Beats, Quiet
<1>11. ASSUME NEW p \in Processes, EndsRound(p) PROVE TypeOK'
  BY <1>11, LoopAssumption DEF EndsRound, Reports, TypeOK, Controls, Stages, Starts, Idle, Beats, Quiet
<1>12. ASSUME NEW p \in Processes, Stops(p) PROVE TypeOK'
  BY <1>12, LoopAssumption DEF Stops, TypeOK, Controls, Stages, Starts, Idle, Beats, Quiet
<1>13. ASSUME NEW p \in Processes, StartsBackground(p) PROVE TypeOK'
  BY <1>13, LoopAssumption DEF StartsBackground, TypeOK, Controls, Stages, Starts, Idle, Beats, Quiet
<1>14. ASSUME NEW p \in Processes, Pulses(p) PROVE TypeOK'
  BY <1>14, LoopAssumption DEF Pulses, Reports, TypeOK, Controls, Stages, Starts, Idle, Beats, Quiet
<1>15. ASSUME NEW p \in Processes, EndsBackground(p) PROVE TypeOK'
  BY <1>15, LoopAssumption DEF EndsBackground, TypeOK, Controls, Stages, Starts, Idle, Beats, Quiet
<1>16. ASSUME NEW p \in Processes, Finishes(p) PROVE TypeOK'
  BY <1>16, LoopAssumption DEF Finishes, Reports, TypeOK, Controls, Stages, Starts, Idle, Beats, Quiet
<1>17. ASSUME NEW p \in Processes, LosesClaim(p) PROVE TypeOK'
  BY <1>17, LoopAssumption DEF LosesClaim, Dies, TypeOK, Controls, Stages, Starts, Idle, Beats, Quiet
<1>18. ASSUME NEW p \in Processes, Crashes(p) PROVE TypeOK'
  BY <1>18, LoopAssumption DEF Crashes, Dies, Alive, TypeOK, Controls, Stages, Starts, Idle, Beats, Quiet
<1>19. ASSUME NEW p \in Processes, NEW i \in Items, Claims(p, i) PROVE TypeOK'
  BY <1>19, LoopAssumption DEF Claims, Reports, TypeOK, Controls, Stages, Starts, Idle, Beats, Quiet
<1>20. ASSUME NEW o \in Operators, StartReads(o) PROVE TypeOK'
  <2>1. start[o] \in Starts
    BY DEF TypeOK
  <2>2. PICK previous \in Controls \ {"running"} :
          start' = [start EXCEPT ![o] = [start[o] EXCEPT !.at = "set", !.previous = previous]]
    BY <1>20, <2>1 DEF StartReads, TypeOK, Starts, Controls
  <2>3. [start[o] EXCEPT !.at = "set", !.previous = previous] \in Starts
    BY <2>1, <2>2 DEF Starts, Controls
  <2>4. start' \in [Operators -> Starts]
    BY <2>2, <2>3 DEF TypeOK
  <2>5. QED
    BY <1>20, <2>4 DEF StartReads, TypeOK
<1>21. ASSUME NEW p \in Processes, Dispatches(p) PROVE TypeOK'
  BY <1>21, LoopAssumption DEF Dispatches, TypeOK, Controls, Stages, Starts, Idle, Beats, Quiet
<1>22. ASSUME NEW p \in Processes, Exits(p) PROVE TypeOK'
  BY <1>22, LoopAssumption DEF Exits, Dies, TypeOK, Controls, Stages, Starts, Idle, Beats, Quiet
<1>23. ASSUME LauncherEnds PROVE TypeOK'
  BY <1>23, LoopAssumption DEF LauncherEnds, TypeOK, Controls, Stages, Starts, Idle, Beats, Quiet
<1>q. QED
  BY <1>0, <1>1, <1>2, <1>3, <1>4, <1>5, <1>6, <1>7, <1>8, <1>9, <1>10, <1>11, <1>12, <1>13, <1>14, <1>15, <1>16, <1>17, <1>18, <1>19, <1>20, <1>21, <1>22, <1>23 DEF Next, Starting, Runs

(* Supervisors, operators and rows are always in the states the module      *)
(* names: control intent, runtime row, claims and start commands.           *)
THEOREM TypeCorrect == Spec => []TypeOK
<1>1. Init => TypeOK
  BY LoopAssumption DEF Init, TypeOK, Controls, Stages, Starts, Idle, Beats, Quiet
<1>2. TypeOK /\ [Next]_vars => TypeOK'
  BY TypeStep
<1>3. QED
  BY <1>1, <1>2, PTL DEF Spec

-----------------------------------------------------------------------------
(* The claims made after the intent left "running".                         *)
LEMMA LateStep ==
  ASSUME TypeOK, LateInv, [Next]_vars
  PROVE  LateInv'
<1>0. CASE UNCHANGED vars
  BY <1>0 DEF vars, LateInv, RunningIsCounted, LateEndsRound, TypeOK
<1>1. ASSUME NEW desired \in Controls, Command(desired) PROVE LateInv'
  BY <1>1, LoopAssumption DEF Command, SetControl, Controls, LateInv, RunningIsCounted, LateEndsRound, TypeOK
<1>2. ASSUME NEW o \in Operators, StartProbes(o) PROVE LateInv'
  BY <1>2, LoopAssumption DEF StartProbes, Running, LateInv, RunningIsCounted, LateEndsRound, TypeOK
<1>3. ASSUME NEW o \in Operators, StartSets(o) PROVE LateInv'
  BY <1>3, LoopAssumption DEF StartSets, SetControl, LateInv, RunningIsCounted, LateEndsRound, TypeOK
<1>4. ASSUME NEW o \in Operators, Launches(o) PROVE LateInv'
  BY <1>4, LoopAssumption DEF Launches, LateInv, RunningIsCounted, LateEndsRound, TypeOK
<1>5. ASSUME NEW o \in Operators, LaunchFails(o) PROVE LateInv'
  BY <1>5, LoopAssumption DEF LaunchFails, LateInv, RunningIsCounted, LateEndsRound, TypeOK
<1>6. ASSUME NEW o \in Operators, StartRestores(o) PROVE LateInv'
  BY <1>6, LoopAssumption DEF StartRestores, SetControl, LateInv, RunningIsCounted, LateEndsRound, TypeOK
<1>7. ASSUME NEW p \in Processes, Constructs(p) PROVE LateInv'
  BY <1>7, LoopAssumption DEF Constructs, Alive, LateInv, RunningIsCounted, LateEndsRound, TypeOK
<1>8. ASSUME NEW p \in Processes, Recovers(p) PROVE LateInv'
  BY <1>8, LoopAssumption DEF Recovers, LateInv, RunningIsCounted, LateEndsRound, TypeOK
<1>9. ASSUME NEW p \in Processes, Announces(p) PROVE LateInv'
  BY <1>9, LoopAssumption DEF Announces, Reports, LateInv, RunningIsCounted, LateEndsRound, TypeOK
<1>10. ASSUME NEW p \in Processes, Checks(p) PROVE LateInv'
  <2>1. stage[p] = "round" /\ UNCHANGED <<control, executing, late>>
    BY <1>10 DEF Checks
  <2>2. \A q \in Processes \ {p} : stage'[q] = stage[q]
    BY <1>10 DEF Checks, TypeOK
  <2>3. stage'[p] = "working" => control = "running"
    BY <1>10 DEF Checks, TypeOK
  <2>4. QED
    BY <2>1, <2>2, <2>3 DEF LateInv, RunningIsCounted, LateEndsRound
<1>11. ASSUME NEW p \in Processes, EndsRound(p) PROVE LateInv'
  BY <1>11, LoopAssumption DEF EndsRound, Reports, LateInv, RunningIsCounted, LateEndsRound, TypeOK
<1>12. ASSUME NEW p \in Processes, Stops(p) PROVE LateInv'
  BY <1>12, LoopAssumption DEF Stops, LateInv, RunningIsCounted, LateEndsRound, TypeOK
<1>13. ASSUME NEW p \in Processes, StartsBackground(p) PROVE LateInv'
  BY <1>13, LoopAssumption DEF StartsBackground, LateInv, RunningIsCounted, LateEndsRound, TypeOK
<1>14. ASSUME NEW p \in Processes, Pulses(p) PROVE LateInv'
  BY <1>14, LoopAssumption DEF Pulses, Reports, LateInv, RunningIsCounted, LateEndsRound, TypeOK
<1>15. ASSUME NEW p \in Processes, EndsBackground(p) PROVE LateInv'
  BY <1>15, LoopAssumption DEF EndsBackground, LateInv, RunningIsCounted, LateEndsRound, TypeOK
<1>16. ASSUME NEW p \in Processes, Finishes(p) PROVE LateInv'
  BY <1>16, LoopAssumption DEF Finishes, Reports, LateInv, RunningIsCounted, LateEndsRound, TypeOK
<1>17. ASSUME NEW p \in Processes, LosesClaim(p) PROVE LateInv'
  BY <1>17, LoopAssumption DEF LosesClaim, Dies, LateInv, RunningIsCounted, LateEndsRound, TypeOK
<1>18. ASSUME NEW p \in Processes, Crashes(p) PROVE LateInv'
  BY <1>18, LoopAssumption DEF Crashes, Dies, Alive, LateInv, RunningIsCounted, LateEndsRound, TypeOK
<1>19. ASSUME NEW p \in Processes, NEW i \in Items, Claims(p, i) PROVE LateInv'
  BY <1>19, LoopAssumption DEF Claims, Reports, LateInv, RunningIsCounted, LateEndsRound, TypeOK
<1>20. ASSUME NEW o \in Operators, StartReads(o) PROVE LateInv'
  BY <1>20, LoopAssumption DEF StartReads, LateInv, RunningIsCounted, LateEndsRound, TypeOK
<1>21. ASSUME NEW p \in Processes, Dispatches(p) PROVE LateInv'
  BY <1>21, LoopAssumption DEF Dispatches, LateInv, RunningIsCounted, LateEndsRound, TypeOK
<1>22. ASSUME NEW p \in Processes, Exits(p) PROVE LateInv'
  BY <1>22, LoopAssumption DEF Exits, Dies, LateInv, RunningIsCounted, LateEndsRound, TypeOK
<1>23. ASSUME LauncherEnds PROVE LateInv'
  BY <1>23, LoopAssumption DEF LauncherEnds, LateInv, RunningIsCounted, LateEndsRound, TypeOK
<1>q. QED
  BY <1>0, <1>1, <1>2, <1>3, <1>4, <1>5, <1>6, <1>7, <1>8, <1>9, <1>10, <1>11, <1>12, <1>13, <1>14, <1>15, <1>16, <1>17, <1>18, <1>19, <1>20, <1>21, <1>22, <1>23 DEF Next, Starting, Runs

(* However operators, crashes and rounds interleave, a supervisor claims at *)
(* most once after a pause or a stop (run_round reads the intent, then      *)
(* claims without reading it again).                                        *)
THEOREM ClaimsStopAfterOne == Spec => []OneLateClaim
<1>1. Init => LateInv
  BY DEF Init, LateInv, RunningIsCounted, LateEndsRound
<1>2. TypeOK /\ LateInv /\ [Next]_vars => LateInv'
  BY LateStep
<1>3. LateInv => OneLateClaim
  <2>1. SUFFICES ASSUME LateInv, NEW p \in Processes PROVE late[p] <= 1
    BY DEF OneLateClaim
  <2>2. late[p] = 0 \/ late[p] = 1
    BY <2>1 DEF LateInv, LateEndsRound
  <2>3. QED
    BY <2>2
<1>4. QED
  BY <1>1, <1>2, <1>3, TypeCorrect, PTL DEF Spec

-----------------------------------------------------------------------------
(* What a replacement finds.                                                *)
LEMMA SoloStep ==
  ASSUME TypeOK, SoloInv, [Next]_vars
  PROVE  SoloInv'
<1>0. CASE UNCHANGED vars
  BY <1>0 DEF vars, SoloInv, ExecutesWorking, SoloIsAlone, SoloInherits, Looping, TypeOK
<1>1. ASSUME NEW desired \in Controls, Command(desired) PROVE SoloInv'
  BY <1>1, LoopAssumption DEF Command, SetControl, Controls, SoloInv, ExecutesWorking, SoloIsAlone, SoloInherits, Looping, TypeOK
<1>2. ASSUME NEW o \in Operators, StartProbes(o) PROVE SoloInv'
  BY <1>2, LoopAssumption DEF StartProbes, Running, SoloInv, ExecutesWorking, SoloIsAlone, SoloInherits, Looping, TypeOK
<1>3. ASSUME NEW o \in Operators, StartSets(o) PROVE SoloInv'
  BY <1>3, LoopAssumption DEF StartSets, SetControl, SoloInv, ExecutesWorking, SoloIsAlone, SoloInherits, Looping, TypeOK
<1>4. ASSUME NEW o \in Operators, Launches(o) PROVE SoloInv'
  BY <1>4, LoopAssumption DEF Launches, SoloInv, ExecutesWorking, SoloIsAlone, SoloInherits, Looping, TypeOK
<1>5. ASSUME NEW o \in Operators, LaunchFails(o) PROVE SoloInv'
  BY <1>5, LoopAssumption DEF LaunchFails, SoloInv, ExecutesWorking, SoloIsAlone, SoloInherits, Looping, TypeOK
<1>6. ASSUME NEW o \in Operators, StartRestores(o) PROVE SoloInv'
  BY <1>6, LoopAssumption DEF StartRestores, SetControl, SoloInv, ExecutesWorking, SoloIsAlone, SoloInherits, Looping, TypeOK
<1>7. ASSUME NEW p \in Processes, Constructs(p) PROVE SoloInv'
  BY <1>7, LoopAssumption DEF Constructs, Alive, SoloInv, ExecutesWorking, SoloIsAlone, SoloInherits, Looping, TypeOK
<1>8. ASSUME NEW p \in Processes, Recovers(p) PROVE SoloInv'
  BY <1>8, LoopAssumption DEF Recovers, SoloInv, ExecutesWorking, SoloIsAlone, SoloInherits, Looping, TypeOK
<1>9. ASSUME NEW p \in Processes, Announces(p) PROVE SoloInv'
  BY <1>9, LoopAssumption DEF Announces, Reports, SoloInv, ExecutesWorking, SoloIsAlone, SoloInherits, Looping, TypeOK
<1>10. ASSUME NEW p \in Processes, Checks(p) PROVE SoloInv'
  BY <1>10, LoopAssumption DEF Checks, Reports, SoloInv, ExecutesWorking, SoloIsAlone, SoloInherits, Looping, TypeOK
<1>11. ASSUME NEW p \in Processes, EndsRound(p) PROVE SoloInv'
  BY <1>11, LoopAssumption DEF EndsRound, Reports, SoloInv, ExecutesWorking, SoloIsAlone, SoloInherits, Looping, TypeOK
<1>12. ASSUME NEW p \in Processes, Stops(p) PROVE SoloInv'
  BY <1>12, LoopAssumption DEF Stops, SoloInv, ExecutesWorking, SoloIsAlone, SoloInherits, Looping, TypeOK
<1>13. ASSUME NEW p \in Processes, StartsBackground(p) PROVE SoloInv'
  BY <1>13, LoopAssumption DEF StartsBackground, SoloInv, ExecutesWorking, SoloIsAlone, SoloInherits, Looping, TypeOK
<1>14. ASSUME NEW p \in Processes, Pulses(p) PROVE SoloInv'
  BY <1>14, LoopAssumption DEF Pulses, Reports, SoloInv, ExecutesWorking, SoloIsAlone, SoloInherits, Looping, TypeOK
<1>15. ASSUME NEW p \in Processes, EndsBackground(p) PROVE SoloInv'
  BY <1>15, LoopAssumption DEF EndsBackground, SoloInv, ExecutesWorking, SoloIsAlone, SoloInherits, Looping, TypeOK
<1>16. ASSUME NEW p \in Processes, Finishes(p) PROVE SoloInv'
  BY <1>16, LoopAssumption DEF Finishes, Reports, SoloInv, ExecutesWorking, SoloIsAlone, SoloInherits, Looping, TypeOK
<1>17. ASSUME NEW p \in Processes, LosesClaim(p) PROVE SoloInv'
  BY <1>17, LoopAssumption DEF LosesClaim, Dies, SoloInv, ExecutesWorking, SoloIsAlone, SoloInherits, Looping, TypeOK
<1>18. ASSUME NEW p \in Processes, Crashes(p) PROVE SoloInv'
  BY <1>18, LoopAssumption DEF Crashes, Dies, Alive, SoloInv, ExecutesWorking, SoloIsAlone, SoloInherits, Looping, TypeOK
<1>19. ASSUME NEW p \in Processes, NEW i \in Items, Claims(p, i) PROVE SoloInv'
  BY <1>19, LoopAssumption DEF Claims, Reports, SoloInv, ExecutesWorking, SoloIsAlone, SoloInherits, Looping, TypeOK
<1>20. ASSUME NEW o \in Operators, StartReads(o) PROVE SoloInv'
  BY <1>20, LoopAssumption DEF StartReads, SoloInv, ExecutesWorking, SoloIsAlone, SoloInherits, Looping, TypeOK
<1>21. ASSUME NEW p \in Processes, Dispatches(p) PROVE SoloInv'
  BY <1>21, LoopAssumption DEF Dispatches, SoloInv, ExecutesWorking, SoloIsAlone, SoloInherits, Looping, TypeOK
<1>22. ASSUME NEW p \in Processes, Exits(p) PROVE SoloInv'
  BY <1>22, LoopAssumption DEF Exits, Dies, SoloInv, ExecutesWorking, SoloIsAlone, SoloInherits, Looping, TypeOK
<1>23. ASSUME LauncherEnds PROVE SoloInv'
  BY <1>23, LoopAssumption DEF LauncherEnds, SoloInv, ExecutesWorking, SoloIsAlone, SoloInherits, Looping, TypeOK
<1>q. QED
  BY <1>0, <1>1, <1>2, <1>3, <1>4, <1>5, <1>6, <1>7, <1>8, <1>9, <1>10, <1>11, <1>12, <1>13, <1>14, <1>15, <1>16, <1>17, <1>18, <1>19, <1>20, <1>21, <1>22, <1>23 DEF Next, Starting, Runs

(* A supervisor that is alone since it was built has freed every claim its  *)
(* predecessors left, wherever they died, before its first round.           *)
THEOREM ReplacementsOwnClaims == Spec => []SoloOwnsClaims
<1>1. Init => SoloInv
  BY DEF Init, SoloInv, ExecutesWorking, SoloIsAlone, SoloInherits
<1>2. TypeOK /\ SoloInv /\ [Next]_vars => SoloInv'
  BY SoloStep
<1>3. SoloInv => SoloOwnsClaims
  BY DEF SoloInv, SoloInherits, SoloOwnsClaims
<1>4. QED
  BY <1>1, <1>2, <1>3, TypeCorrect, PTL DEF Spec
=============================================================================
