------------------------ MODULE DirectSessionProofs ------------------------
(***************************************************************************)
(* Proofs about DirectSession for any number of executors and sessions, any  *)
(* circuit limit and any bounds on the failures.                             *)
(***************************************************************************)
EXTENDS DirectSession, FiniteSetTheorems, TLAPS

-----------------------------------------------------------------------------
(* The inductive invariant.                                                  *)

\* Interventions are counted: a new request was paid for, and a crash is spent.
BudgetInv ==
    /\ request + budget["operator"] <= MaxOperator
    /\ budget["crash"] <= MaxCrashes /\ budget["lost"] <= MaxLost

\* An executor at these steps has a session in hand ...
Holding == {"adopt", "persist", "save", "saveResumed", "saveDraft", "fetch",
            "fetchReplacement", "poll", "start", "observe", "judge", "mark", "kick",
            "saveSuccess", "saveFailure"}

\* ... at these a checkpoint it has read, and at these the grant exists.
Reading   == {"adopt", "fetch", "recover", "saveStartFailed"}
Replacing == {"reserve", "replace", "persist", "release"}

LocalInv(e) ==
    /\ pc[e] \in Holding => sess[e] # None
    /\ pc[e] \in Reading => seen[e] # None
    /\ pc[e] \in Replacing => grant # None
    /\ pc[e] = "except" => obs[e] \in {"missing", "error"}
    /\ pc[e] \in {"report", "record", "apply"} =>
          /\ obs[e] \in Outcomes
          /\ obs[e] \in {"finished", "finished_empty"} => sess[e] # None

LocalsInv == \A e \in Executors : LocalInv(e)

\* Nobody names a session the server has not created.
KnownInv ==
    /\ chk # None => jesse[chk.session] # "absent"
    /\ grant # None =>
          /\ jesse[grant.old] # "absent"
          /\ grant.replacement # None => jesse[grant.replacement] # "absent"
    /\ plan # None /\ plan.repair = "orphan" => grant # None
    /\ \A e \in Executors :
          /\ sess[e] # None => jesse[sess[e]] # "absent"
          /\ seen[e] # None => jesse[seen[e].session] # "absent"

\* The right to create the one replacement: nobody has it, or one executor has it
\* and there is no replacement yet, or it has been used; the reservation stays.
Replacement(s) == jesse[s] # "absent" /\ origin[s].kind = "replacement"

Reserved == grant # None /\ grant.reserved

TokenInv ==
    /\ plan = None
    /\ \A e \in Executors :
          /\ pc[e] # "release"
          /\ pc[e] = "replace" =>
                /\ Reserved
                /\ \A s \in Sessions : ~Replacement(s)
                /\ \A d \in Executors : pc[d] = "replace" => d = e
    /\ \A s \in Sessions : Replacement(s) =>
          Reserved /\ \A t \in Sessions : Replacement(t) => t = s

IInv == /\ TypeOK /\ BudgetInv /\ LocalsInv /\ KnownInv /\ NoOrphanWithoutCrash
        /\ (Untroubled => TokenInv)

-----------------------------------------------------------------------------
(* What a checkpoint and a grant are made of.                                *)

LEMMA CheckpointFields ==
    ASSUME NEW c \in Checkpoint
    PROVE  c.session \in Sessions /\ c.request \in Editions /\ c.metrics \in {"none", "full"}
  BY DEF Checkpoint

LEMMA GrantFields ==
    ASSUME NEW g \in Grant
    PROVE  /\ g.old \in Sessions /\ g.reserved \in BOOLEAN
           /\ g.replacement \in Sessions \cup {None}
  BY DEF Grant

\* The grant a lost session is replaced by.
LEMMA NewGrant ==
    ASSUME NEW s \in Sessions
    PROVE  [old |-> s, reserved |-> FALSE, replacement |-> None] \in Grant
  BY DEF Grant

\* None is neither a session nor a row.
LEMMA NoneIsNoSession == None \notin Sessions
  BY NoneAssumption DEF Sessions

LEMMA NoneIsNoRow == None \notin Checkpoint /\ None \notin Grant
  BY NoneAssumption

\* A created session is shown in a state an executor can observe.
LEMMA ShownObserved ==
    ASSUME NEW t \in {"draft", "landing", "running", "stalled", "finished", "partial", "failed"}
    PROVE  Shown[t] \in {"draft", "active", "stalled", "success", "partial", "failure"}
  BY DEF Shown

\* The bounds are what the budget starts with.
LEMMA BoundsAreNatural ==
    /\ Bounds \in [Budgets -> Nat]
    /\ Bounds["crash"] = MaxCrashes /\ Bounds["operator"] = MaxOperator
    /\ Bounds["lost"] = MaxLost
  BY DirectAssumption DEF Bounds, Budgets

-----------------------------------------------------------------------------
LEMMA InitInv == Init => IInv
<1> SUFFICES ASSUME Init PROVE IInv
  OBVIOUS
<1>1. QueueTypeOK
  BY DirectAssumption DEF Init, QueueTypeOK, Editions
<1>2. StoreTypeOK
  BY DEF Init, StoreTypeOK
<1>3. ServerTypeOK
  BY DirectAssumption DEF Init, ServerTypeOK, Editions, ServerStates
<1>4. LocalTypeOK
  BY DirectAssumption DEF Init, LocalTypeOK, Editions, PCs, Observations
<1>5. budget \in [Budgets -> Nat] /\ BudgetInv
  BY DirectAssumption, BoundsAreNatural DEF Init, BudgetInv
<1>6. LocalsInv
  BY DEF Init, LocalsInv, LocalInv, Holding, Reading, Replacing
<1>7. KnownInv
  BY DEF Init, KnownInv
<1>8. NoOrphanWithoutCrash
  BY DEF Init, NoOrphanWithoutCrash
<1>9. stopped \in BOOLEAN
  BY Zenon DEF Init
<1>10. TokenInv
  BY DEF Init, TokenInv, Replacement
<1> QED
  BY <1>1, <1>2, <1>3, <1>4, <1>5, <1>6, <1>7, <1>8, <1>9, <1>10 DEF IInv, TypeOK

-----------------------------------------------------------------------------
(* Every action keeps every part of the invariant: one lemma per action, in the *)
(* order of DirectSession, one step per part.  Most parts hold because the action *)
(* leaves their variables alone or moves one executor; where more is needed,      *)
(* steps <1>0 and <1>a to <1>c say what the action does to the shared rows.        *)

\* What the actions are written with is expanded everywhere below.
USE DEF queue, store, server, local, Goto, See, Return, Raise, Kept, Leave, Spend,
        Upsert, OperatorFrame, Stuck

LEMMA DispatchInv ==
    ASSUME NEW e \in Executors, IInv, Dispatch(e)
    PROVE  IInv'
<1>1. QueueTypeOK'
  BY DEF IInv, TypeOK, QueueTypeOK, Dispatch
<1>2. StoreTypeOK'
  BY DEF IInv, TypeOK, StoreTypeOK, Dispatch
<1>3. ServerTypeOK'
  BY DEF IInv, TypeOK, ServerTypeOK, Dispatch
<1>4. LocalTypeOK'
  BY DEF IInv, TypeOK, LocalTypeOK, QueueTypeOK, PCs, Dispatch
<1>5. budget' \in [Budgets -> Nat] /\ BudgetInv'
  BY DEF IInv, TypeOK, BudgetInv, Dispatch
<1>6. LocalsInv'
  BY DEF IInv, TypeOK, LocalsInv, LocalInv, Holding, Reading, Replacing, Dispatch
<1>7. KnownInv'
  BY DEF IInv, TypeOK, KnownInv, Dispatch
<1>8. NoOrphanWithoutCrash'
  BY DEF IInv, TypeOK, NoOrphanWithoutCrash, Dispatch
<1>9. stopped' \in BOOLEAN
  BY Zenon DEF IInv, TypeOK, Dispatch
<1>10. Untroubled' => TokenInv'
  BY DEF IInv, TypeOK, Untroubled, TokenInv, Replacement, Reserved, Dispatch
<1> QED
  BY <1>1, <1>2, <1>3, <1>4, <1>5, <1>6, <1>7, <1>8, <1>9, <1>10 DEF IInv, TypeOK

LEMMA ReadInv ==
    ASSUME NEW e \in Executors, IInv, Read(e)
    PROVE  IInv'
<1>1. QueueTypeOK'
  BY DEF IInv, TypeOK, QueueTypeOK, Read
<1>2. StoreTypeOK'
  BY DEF IInv, TypeOK, StoreTypeOK, Read
<1>3. ServerTypeOK'
  BY DEF IInv, TypeOK, ServerTypeOK, Read
<1>4. LocalTypeOK'
  <2>1. pc' \in [Executors -> PCs]
    BY DEF IInv, TypeOK, LocalTypeOK, PCs, Read
  <2>2. sess' \in [Executors -> Sessions \cup {None}]
    BY CheckpointFields DEF IInv, TypeOK, LocalTypeOK, StoreTypeOK, Read
  <2>3. req' \in [Executors -> Editions]
    BY DEF IInv, TypeOK, LocalTypeOK, Read
  <2>4. seen' \in [Executors -> Checkpoint \cup {None}]
    BY DEF IInv, TypeOK, LocalTypeOK, StoreTypeOK, Read
  <2>5. obs' \in [Executors -> Observations]
    BY DEF IInv, TypeOK, LocalTypeOK, Observations, Outcomes, Read
  <2>6. polls' \in [Executors -> 0..MaxPolls]
    BY DEF IInv, TypeOK, LocalTypeOK, Read
  <2> QED
    BY <2>1, <2>2, <2>3, <2>4, <2>5, <2>6 DEF LocalTypeOK
<1>5. budget' \in [Budgets -> Nat] /\ BudgetInv'
  BY DEF IInv, TypeOK, BudgetInv, Read
<1>6. LocalsInv'
  BY NoneIsNoSession, CheckpointFields DEF IInv, TypeOK, LocalTypeOK, StoreTypeOK,
        LocalsInv, LocalInv, Holding, Reading, Replacing, Outcomes, Read
<1>7. KnownInv'
  BY DEF IInv, TypeOK, LocalTypeOK, KnownInv, Read
<1>8. NoOrphanWithoutCrash'
  BY DEF IInv, TypeOK, LocalTypeOK, NoOrphanWithoutCrash, Read
<1>9. stopped' \in BOOLEAN
  BY Zenon DEF IInv, TypeOK, Read
<1>10. Untroubled' => TokenInv'
  BY DEF IInv, TypeOK, LocalTypeOK, Untroubled, TokenInv, Replacement, Reserved, Read
<1> QED
  BY <1>1, <1>2, <1>3, <1>4, <1>5, <1>6, <1>7, <1>8, <1>9, <1>10 DEF IInv, TypeOK

LEMMA AdoptInv ==
    ASSUME NEW e \in Executors, IInv, Adopt(e)
    PROVE  IInv'
<1>0. sess[e] \in Sessions
  BY DEF IInv, TypeOK, LocalTypeOK, LocalsInv, LocalInv, Holding, Adopt
<1>a. \/ grant' = grant
      \/ /\ grant \in Grant /\ grant' \in Grant /\ grant'.old = grant.old
         /\ grant'.replacement = sess[e]
  <2>1. CASE grant # None /\ grant' = [grant EXCEPT !.reserved = TRUE, !.replacement = sess[e]]
    BY <1>0, <2>1 DEF IInv, TypeOK, StoreTypeOK, Grant
  <2>2. CASE grant' = grant
    BY <2>2
  <2> QED
    BY <2>1, <2>2 DEF Adopt
<1>1. QueueTypeOK'
  BY DEF IInv, TypeOK, QueueTypeOK, Adopt
<1>2. StoreTypeOK'
  BY <1>0, <1>a DEF IInv, TypeOK, StoreTypeOK, Adopt
<1>3. ServerTypeOK'
  BY DEF IInv, TypeOK, ServerTypeOK, Adopt
<1>4. LocalTypeOK'
  <2>1. pc' \in [Executors -> PCs]
    BY DEF IInv, TypeOK, LocalTypeOK, PCs, Adopt
  <2>2. sess' \in [Executors -> Sessions \cup {None}]
    BY DEF IInv, TypeOK, LocalTypeOK, Adopt
  <2>3. req' \in [Executors -> Editions]
    BY DEF IInv, TypeOK, LocalTypeOK, Adopt
  <2>4. seen' \in [Executors -> Checkpoint \cup {None}]
    BY DEF IInv, TypeOK, LocalTypeOK, Adopt
  <2>5. obs' \in [Executors -> Observations]
    BY DEF IInv, TypeOK, LocalTypeOK, Observations, Outcomes, Adopt
  <2>6. polls' \in [Executors -> 0..MaxPolls]
    BY DEF IInv, TypeOK, LocalTypeOK, Adopt
  <2> QED
    BY <2>1, <2>2, <2>3, <2>4, <2>5, <2>6 DEF LocalTypeOK
<1>5. budget' \in [Budgets -> Nat] /\ BudgetInv'
  BY DEF IInv, TypeOK, BudgetInv, Adopt
<1>6. LocalsInv'
  BY <1>0, <1>a, NoneIsNoRow, NoneIsNoSession DEF IInv, TypeOK, LocalTypeOK, LocalsInv,
        LocalInv, Reading, Replacing, Outcomes, Adopt
<1>7. KnownInv'
  BY <1>0, <1>a, NoneIsNoRow DEF IInv, TypeOK, KnownInv, Adopt
<1>8. NoOrphanWithoutCrash'
  BY DEF IInv, TypeOK, LocalTypeOK, StoreTypeOK, NoOrphanWithoutCrash, Grant, Adopt
<1>9. stopped' \in BOOLEAN
  BY Zenon DEF IInv, TypeOK, Adopt
<1>10. Untroubled' => TokenInv'
  BY DEF IInv, TypeOK, LocalTypeOK, Untroubled, TokenInv, Replacement, Reserved, Adopt
<1> QED
  BY <1>1, <1>2, <1>3, <1>4, <1>5, <1>6, <1>7, <1>8, <1>9, <1>10 DEF IInv, TypeOK

LEMMA ResumeInv ==
    ASSUME NEW e \in Executors, IInv, Resume(e)
    PROVE  IInv'
<1>1. QueueTypeOK'
  BY DEF IInv, TypeOK, QueueTypeOK, Resume
<1>2. StoreTypeOK'
  BY DEF IInv, TypeOK, StoreTypeOK, Resume
<1>3. ServerTypeOK'
  BY DEF IInv, TypeOK, ServerTypeOK, Resume
<1>4. LocalTypeOK'
  BY GrantFields DEF IInv, TypeOK, LocalTypeOK, StoreTypeOK, PCs, Observations, Resume
<1>5. budget' \in [Budgets -> Nat] /\ BudgetInv'
  BY DEF IInv, TypeOK, BudgetInv, Resume
<1>6. LocalsInv'
  BY DEF IInv, TypeOK, LocalTypeOK, LocalsInv, LocalInv, Holding, Reading, Replacing,
        Resume
<1>7. KnownInv'
  BY DEF IInv, TypeOK, LocalTypeOK, KnownInv, Resume
<1>8. NoOrphanWithoutCrash'
  BY DEF IInv, TypeOK, LocalTypeOK, NoOrphanWithoutCrash, Resume
<1>9. stopped' \in BOOLEAN
  BY Zenon DEF IInv, TypeOK, Resume
<1>10. Untroubled' => TokenInv'
  BY DEF IInv, TypeOK, LocalTypeOK, Untroubled, TokenInv, Replacement, Reserved, Resume
<1> QED
  BY <1>1, <1>2, <1>3, <1>4, <1>5, <1>6, <1>7, <1>8, <1>9, <1>10 DEF IInv, TypeOK

LEMMA ReserveInv ==
    ASSUME NEW e \in Executors, IInv, Reserve(e)
    PROVE  IInv'
<1>0. grant \in Grant
  BY DEF IInv, TypeOK, StoreTypeOK, LocalsInv, LocalInv, Replacing, Reserve
<1>a. /\ grant' \in Grant /\ grant'.old = grant.old
      /\ grant'.replacement = grant.replacement \/ (sess[e] # None /\ grant'.replacement = sess[e])
  <2>1. CASE grant' = [grant EXCEPT !.reserved = TRUE]
    BY <1>0, <2>1 DEF Grant, IInv, TypeOK, Reserve
  <2>2. CASE grant' = grant
    BY <1>0, <2>2 DEF IInv, TypeOK, Reserve
  <2> QED
    BY <2>1, <2>2 DEF Reserve
<1>b. UNCHANGED <<chk, plan, sess, seen, jesse, origin, budget>>
  BY DEF Reserve
<1>c. /\ \A x \in Executors \ {e} : pc'[x] = pc[x] /\ obs'[x] = obs[x]
      /\ pc'[e] \in {"replace", "except"}
      /\ pc'[e] = "except" => obs'[e] = "error"
  BY DEF IInv, TypeOK, LocalTypeOK, Reserve
<1>1. QueueTypeOK'
  BY DEF IInv, TypeOK, QueueTypeOK, Reserve
<1>2. StoreTypeOK'
  BY <1>a, <1>b DEF IInv, TypeOK, StoreTypeOK
<1>3. ServerTypeOK'
  BY DEF IInv, TypeOK, ServerTypeOK, Reserve
<1>4. LocalTypeOK'
  <2>1. pc' \in [Executors -> PCs]
    BY DEF IInv, TypeOK, LocalTypeOK, PCs, Reserve
  <2>2. sess' \in [Executors -> Sessions \cup {None}]
    BY DEF IInv, TypeOK, LocalTypeOK, Reserve
  <2>3. req' \in [Executors -> Editions]
    BY DEF IInv, TypeOK, LocalTypeOK, Reserve
  <2>4. seen' \in [Executors -> Checkpoint \cup {None}]
    BY DEF IInv, TypeOK, LocalTypeOK, Reserve
  <2>5. obs' \in [Executors -> Observations]
    BY DEF IInv, TypeOK, LocalTypeOK, Observations, Reserve
  <2>6. polls' \in [Executors -> 0..MaxPolls]
    BY DEF IInv, TypeOK, LocalTypeOK, Reserve
  <2> QED
    BY <2>1, <2>2, <2>3, <2>4, <2>5, <2>6 DEF LocalTypeOK
<1>5. budget' \in [Budgets -> Nat] /\ BudgetInv'
  BY DEF IInv, TypeOK, BudgetInv, Reserve
<1>6. LocalsInv'
  <2> SUFFICES ASSUME NEW x \in Executors PROVE LocalInv(x)'
    BY DEF LocalsInv
  <2>0. LocalInv(x) /\ LocalInv(e) /\ grant' # None
    BY <1>a, NoneIsNoRow DEF IInv, LocalsInv
  <2>1. CASE x # e
    BY <2>0, <2>1, <1>b, <1>c DEF LocalInv
  <2>2. CASE x = e
    BY <2>0, <2>2, <1>b, <1>c DEF LocalInv, Holding, Reading, Reserve
  <2> QED
    BY <2>1, <2>2
<1>7. KnownInv'
  BY <1>0, <1>a, <1>b, NoneIsNoRow DEF IInv, TypeOK, KnownInv
<1>8. NoOrphanWithoutCrash'
  BY DEF IInv, TypeOK, LocalTypeOK, NoOrphanWithoutCrash, Reserve
<1>9. stopped' \in BOOLEAN
  BY Zenon DEF IInv, TypeOK, Reserve
<1>10. Untroubled' => TokenInv'
  <2> SUFFICES ASSUME Untroubled' PROVE TokenInv'
    OBVIOUS
  <2>1. Untroubled /\ TokenInv
    BY DEF IInv, TypeOK, Untroubled, Reserve
  <2>2. CASE ~grant.reserved /\ grant' = [grant EXCEPT !.reserved = TRUE]
    <3>1. Reserved'
      BY <2>2, <1>0, <1>a, NoneIsNoRow DEF Reserved, Grant
    <3>2. /\ \A s \in Sessions : ~Replacement(s)
          /\ \A d \in Executors : pc[d] # "replace"
      BY <2>1, <2>2 DEF TokenInv, Reserved
    <3> QED
      BY <3>1, <3>2, <2>1, <1>b, <1>c DEF IInv, TypeOK, TokenInv, Replacement
  <2>3. CASE grant' = grant /\ pc' = [pc EXCEPT ![e] = "except"]
    BY <2>1, <2>3, <1>b DEF IInv, TypeOK, TokenInv, Replacement, Reserved
  <2> QED
    BY <2>2, <2>3 DEF Reserve
<1> QED
  BY <1>1, <1>2, <1>3, <1>4, <1>5, <1>6, <1>7, <1>8, <1>9, <1>10 DEF IInv, TypeOK

LEMMA CreateInv ==
    ASSUME NEW e \in Executors, IInv, Create(e)
    PROVE  IInv'
<1>1. QueueTypeOK'
  BY DEF IInv, TypeOK, QueueTypeOK, Create
<1>2. StoreTypeOK'
  BY DEF IInv, TypeOK, StoreTypeOK, Create
<1>3. ServerTypeOK'
  <2>1. CASE UNCHANGED <<jesse, origin>>
    BY <2>1 DEF IInv, TypeOK, ServerTypeOK, Create
  <2>2. CASE \E s \in Sessions, r \in {"first", "replacement"} :
          /\ jesse' = [jesse EXCEPT ![s] = "draft"]
          /\ origin' = [origin EXCEPT ![s] = [request |-> req[e], kind |-> r]]
    BY <2>2 DEF IInv, TypeOK, LocalTypeOK, ServerTypeOK, ServerStates, Create
  <2> QED
    BY <2>1, <2>2 DEF Create
<1>4. LocalTypeOK'
  <2>1. pc' \in [Executors -> PCs]
    BY DEF IInv, TypeOK, LocalTypeOK, PCs, Create
  <2>2. sess' \in [Executors -> Sessions \cup {None}]
    BY DEF IInv, TypeOK, LocalTypeOK, Create
  <2>3. req' \in [Executors -> Editions]
    BY DEF IInv, TypeOK, LocalTypeOK, Create
  <2>4. seen' \in [Executors -> Checkpoint \cup {None}]
    BY DEF IInv, TypeOK, LocalTypeOK, Create
  <2>5. obs' \in [Executors -> Observations]
    BY DEF IInv, TypeOK, LocalTypeOK, Observations, Create
  <2>6. polls' \in [Executors -> 0..MaxPolls]
    BY DEF IInv, TypeOK, LocalTypeOK, Create
  <2> QED
    BY <2>1, <2>2, <2>3, <2>4, <2>5, <2>6 DEF LocalTypeOK
<1>5. budget' \in [Budgets -> Nat] /\ BudgetInv'
  BY DirectAssumption DEF IInv, TypeOK, BudgetInv, Budgets, Create
<1>6. LocalsInv'
  BY NoneIsNoSession DEF IInv, TypeOK, LocalTypeOK, LocalsInv, LocalInv, Holding,
        Reading, Replacing, Create
<1>7. KnownInv'
  <2>1. \A s \in Sessions : jesse[s] # "absent" => jesse'[s] # "absent"
    BY DEF IInv, TypeOK, ServerTypeOK, Create
  <2>2. \A x \in Executors : sess'[x] # None => sess'[x] \in Sessions /\ jesse'[sess'[x]] # "absent"
    BY <2>1 DEF IInv, TypeOK, LocalTypeOK, ServerTypeOK, KnownInv, Create
  <2>3. \A x \in Executors : seen[x] # None => jesse'[seen[x].session] # "absent"
    BY <2>1, CheckpointFields DEF IInv, TypeOK, LocalTypeOK, KnownInv
  <2>4. UNCHANGED <<chk, grant, plan, seen>>
    BY DEF Create
  <2> QED
    BY <2>1, <2>2, <2>3, <2>4, CheckpointFields, GrantFields DEF IInv, TypeOK,
          StoreTypeOK, KnownInv
<1>8. NoOrphanWithoutCrash'
  BY DEF IInv, TypeOK, LocalTypeOK, Budgets, NoOrphanWithoutCrash, Create
<1>9. stopped' \in BOOLEAN
  BY Zenon DEF IInv, TypeOK, Create
<1>10. Untroubled' => TokenInv'
  <2> SUFFICES ASSUME Untroubled' PROVE TokenInv'
    OBVIOUS
  <2>1. Untroubled /\ TokenInv
    BY DEF IInv, TypeOK, BudgetInv, Untroubled, Create
  <2>2. UNCHANGED <<grant, plan>>
    BY DEF Create
  <2>3. PICK s \in Sessions : /\ jesse[s] = "absent" /\ jesse' = [jesse EXCEPT ![s] = "draft"]
                             /\ origin' = [origin EXCEPT ![s] = [request |-> req[e],
                                   kind |-> IF pc[e] = "replace" THEN "replacement" ELSE "first"]]
                             /\ pc' = [pc EXCEPT ![e] = IF pc[e] = "create" THEN "save" ELSE "persist"]
    BY <2>1 DEF IInv, TypeOK, Budgets, Untroubled, Create
  <2>4. \A t \in Sessions : t # s => (Replacement(t)' <=> Replacement(t))
    BY <2>3 DEF IInv, TypeOK, Replacement
  <2>5. Replacement(s)' => pc[e] = "replace"
    BY <2>3 DEF IInv, TypeOK, ServerTypeOK, Replacement
  <2>6. Reserved' <=> Reserved
    BY <2>2 DEF Reserved
  <2>7. ~Replacement(s)
    BY <2>3 DEF Replacement
  <2>8. \A d \in Executors : pc'[d] \notin {"release"} /\ (pc'[d] = "replace" => d # e /\ pc[d] = "replace")
    BY <2>1, <2>3 DEF IInv, TypeOK, LocalTypeOK, TokenInv, Create
  <2>9. CASE pc[e] = "replace"
    BY <2>1, <2>2, <2>4, <2>6, <2>8, <2>9 DEF TokenInv
  <2>10. CASE pc[e] # "replace"
    BY <2>1, <2>2, <2>4, <2>5, <2>6, <2>7, <2>8, <2>10 DEF TokenInv
  <2> QED
    BY <2>9, <2>10
<1> QED
  BY <1>1, <1>2, <1>3, <1>4, <1>5, <1>6, <1>7, <1>8, <1>9, <1>10 DEF IInv, TypeOK

LEMMA ReleaseInv ==
    ASSUME NEW e \in Executors, IInv, Release(e)
    PROVE  IInv'
<1>0. grant \in Grant
  BY DEF IInv, TypeOK, StoreTypeOK, LocalsInv, LocalInv, Replacing, Release
<1>a. /\ grant' \in Grant /\ grant'.old = grant.old
      /\ grant'.replacement = grant.replacement \/ (sess[e] # None /\ grant'.replacement = sess[e])
  <2>1. CASE grant' = [grant EXCEPT !.reserved = FALSE]
    BY <1>0, <2>1 DEF Grant, IInv, TypeOK, Release
  <2>2. CASE grant' = grant
    BY <1>0, <2>2 DEF IInv, TypeOK, Release
  <2> QED
    BY <2>1, <2>2 DEF Release
<1>b. UNCHANGED <<chk, plan, sess, seen, jesse, origin, budget>>
  BY DEF Release
<1>c. /\ \A x \in Executors \ {e} : pc'[x] = pc[x] /\ obs'[x] = obs[x]
      /\ pc'[e] \in {"except"}
      /\ pc'[e] = "except" => obs'[e] = "error"
  BY DEF IInv, TypeOK, LocalTypeOK, Release
<1>1. QueueTypeOK'
  BY DEF IInv, TypeOK, QueueTypeOK, Release
<1>2. StoreTypeOK'
  BY <1>a, <1>b DEF IInv, TypeOK, StoreTypeOK
<1>3. ServerTypeOK'
  BY DEF IInv, TypeOK, ServerTypeOK, Release
<1>4. LocalTypeOK'
  BY DEF IInv, TypeOK, LocalTypeOK, PCs, Observations, Release
<1>5. budget' \in [Budgets -> Nat] /\ BudgetInv'
  BY DEF IInv, TypeOK, BudgetInv, Release
<1>6. LocalsInv'
  <2> SUFFICES ASSUME NEW x \in Executors PROVE LocalInv(x)'
    BY DEF LocalsInv
  <2>0. LocalInv(x) /\ LocalInv(e) /\ grant' # None
    BY <1>a, NoneIsNoRow DEF IInv, LocalsInv
  <2>1. CASE x # e
    BY <2>0, <2>1, <1>b, <1>c DEF LocalInv
  <2>2. CASE x = e
    BY <2>0, <2>2, <1>b, <1>c DEF LocalInv, Holding, Reading, Release
  <2> QED
    BY <2>1, <2>2
<1>7. KnownInv'
  BY <1>0, <1>a, <1>b, NoneIsNoRow DEF IInv, TypeOK, KnownInv
<1>8. NoOrphanWithoutCrash'
  BY DEF IInv, TypeOK, NoOrphanWithoutCrash, Release
<1>9. stopped' \in BOOLEAN
  BY Zenon DEF IInv, TypeOK, Release
<1>10. Untroubled' => TokenInv'
  BY DEF IInv, TypeOK, Untroubled, TokenInv, Release
<1> QED
  BY <1>1, <1>2, <1>3, <1>4, <1>5, <1>6, <1>7, <1>8, <1>9, <1>10 DEF IInv, TypeOK

LEMMA PersistIdInv ==
    ASSUME NEW e \in Executors, IInv, PersistId(e)
    PROVE  IInv'
<1>0. grant \in Grant
  BY DEF IInv, TypeOK, StoreTypeOK, LocalsInv, LocalInv, Replacing, PersistId
<1>a. /\ grant' \in Grant /\ grant'.old = grant.old
      /\ grant'.replacement = grant.replacement \/ (sess[e] # None /\ grant'.replacement = sess[e])
  <2>1. CASE grant' = [grant EXCEPT !.replacement = sess[e]]
    BY <1>0, <2>1 DEF Grant, IInv, TypeOK, LocalTypeOK, PersistId
  <2>2. CASE grant' = grant
    BY <1>0, <2>2 DEF IInv, TypeOK, PersistId
  <2> QED
    BY <2>1, <2>2 DEF PersistId
<1>b. UNCHANGED <<chk, plan, sess, seen, jesse, origin, budget>>
  BY DEF PersistId
<1>c. /\ \A x \in Executors \ {e} : pc'[x] = pc[x] /\ obs'[x] = obs[x]
      /\ pc'[e] \in {"save", "except"}
      /\ pc'[e] = "except" => obs'[e] = "error"
  BY DEF IInv, TypeOK, LocalTypeOK, PersistId
<1>1. QueueTypeOK'
  BY DEF IInv, TypeOK, QueueTypeOK, PersistId
<1>2. StoreTypeOK'
  BY <1>a, <1>b DEF IInv, TypeOK, StoreTypeOK
<1>3. ServerTypeOK'
  BY DEF IInv, TypeOK, ServerTypeOK, PersistId
<1>4. LocalTypeOK'
  <2>1. pc' \in [Executors -> PCs]
    BY DEF IInv, TypeOK, LocalTypeOK, PCs, PersistId
  <2>2. sess' \in [Executors -> Sessions \cup {None}]
    BY DEF IInv, TypeOK, LocalTypeOK, PersistId
  <2>3. req' \in [Executors -> Editions]
    BY DEF IInv, TypeOK, LocalTypeOK, PersistId
  <2>4. seen' \in [Executors -> Checkpoint \cup {None}]
    BY DEF IInv, TypeOK, LocalTypeOK, PersistId
  <2>5. obs' \in [Executors -> Observations]
    BY DEF IInv, TypeOK, LocalTypeOK, Observations, PersistId
  <2>6. polls' \in [Executors -> 0..MaxPolls]
    BY DEF IInv, TypeOK, LocalTypeOK, PersistId
  <2> QED
    BY <2>1, <2>2, <2>3, <2>4, <2>5, <2>6 DEF LocalTypeOK
<1>5. budget' \in [Budgets -> Nat] /\ BudgetInv'
  BY DEF IInv, TypeOK, BudgetInv, PersistId
<1>6. LocalsInv'
  <2> SUFFICES ASSUME NEW x \in Executors PROVE LocalInv(x)'
    BY DEF LocalsInv
  <2>0. LocalInv(x) /\ LocalInv(e) /\ grant' # None
    BY <1>a, NoneIsNoRow DEF IInv, LocalsInv
  <2>1. CASE x # e
    BY <2>0, <2>1, <1>b, <1>c DEF LocalInv
  <2>2. CASE x = e
    BY <2>0, <2>2, <1>b, <1>c DEF LocalInv, Holding, Reading, PersistId
  <2> QED
    BY <2>1, <2>2
<1>7. KnownInv'
  BY <1>0, <1>a, <1>b, NoneIsNoRow DEF IInv, TypeOK, KnownInv
<1>8. NoOrphanWithoutCrash'
  BY DEF IInv, TypeOK, StoreTypeOK, NoOrphanWithoutCrash, LocalsInv, LocalInv,
        Replacing, Holding, Grant, PersistId
<1>9. stopped' \in BOOLEAN
  BY Zenon DEF IInv, TypeOK, PersistId
<1>10. Untroubled' => TokenInv'
  <2> SUFFICES ASSUME Untroubled' PROVE TokenInv'
    OBVIOUS
  <2>1. Untroubled /\ TokenInv
    BY DEF IInv, TypeOK, Untroubled, PersistId
  <2>2. Reserved' <=> Reserved
    <3>1. CASE grant' = [grant EXCEPT !.replacement = sess[e]]
      BY <3>1, <1>0, <1>a, NoneIsNoRow DEF Reserved
    <3>2. CASE grant' = grant
      BY <3>2 DEF Reserved
    <3> QED
      BY <3>1, <3>2 DEF PersistId
  <2> QED
    BY <2>1, <2>2, <1>b, <1>c DEF IInv, TypeOK, TokenInv, Replacement
<1> QED
  BY <1>1, <1>2, <1>3, <1>4, <1>5, <1>6, <1>7, <1>8, <1>9, <1>10 DEF IInv, TypeOK

LEMMA SaveDraftInv ==
    ASSUME NEW e \in Executors, IInv, SaveDraft(e)
    PROVE  IInv'
<1>1. QueueTypeOK'
  BY DEF IInv, TypeOK, QueueTypeOK, SaveDraft
<1>2. StoreTypeOK'
  BY DEF IInv, TypeOK, StoreTypeOK, LocalTypeOK, LocalsInv, LocalInv, Holding,
        Checkpoint, SaveDraft
<1>3. ServerTypeOK'
  BY DEF IInv, TypeOK, ServerTypeOK, SaveDraft
<1>4. LocalTypeOK'
  BY DEF IInv, TypeOK, LocalTypeOK, PCs, SaveDraft
<1>5. budget' \in [Budgets -> Nat] /\ BudgetInv'
  BY DEF IInv, TypeOK, BudgetInv, SaveDraft
<1>6. LocalsInv'
  BY DEF IInv, TypeOK, LocalsInv, LocalInv, Holding, Reading, Replacing, SaveDraft
<1>7. KnownInv'
  BY DEF IInv, TypeOK, KnownInv, LocalsInv, LocalInv, Holding, SaveDraft
<1>8. NoOrphanWithoutCrash'
  BY DEF IInv, TypeOK, NoOrphanWithoutCrash, SaveDraft
<1>9. stopped' \in BOOLEAN
  BY Zenon DEF IInv, TypeOK, SaveDraft
<1>10. Untroubled' => TokenInv'
  BY DEF IInv, TypeOK, Untroubled, TokenInv, Replacement, Reserved, SaveDraft
<1> QED
  BY <1>1, <1>2, <1>3, <1>4, <1>5, <1>6, <1>7, <1>8, <1>9, <1>10 DEF IInv, TypeOK

LEMMA StartInv ==
    ASSUME NEW e \in Executors, IInv, Start(e)
    PROVE  IInv'
<1>1. QueueTypeOK'
  BY DEF IInv, TypeOK, QueueTypeOK, Start
<1>2. StoreTypeOK'
  BY DEF IInv, TypeOK, StoreTypeOK, Start
<1>3. ServerTypeOK'
  BY DEF IInv, TypeOK, ServerTypeOK, ServerStates, Start
<1>4. LocalTypeOK'
  <2>1. pc' \in [Executors -> PCs]
    BY DEF IInv, TypeOK, LocalTypeOK, PCs, Start
  <2>2. sess' \in [Executors -> Sessions \cup {None}]
    BY DEF IInv, TypeOK, LocalTypeOK, Start
  <2>3. req' \in [Executors -> Editions]
    BY DEF IInv, TypeOK, LocalTypeOK, Start
  <2>4. seen' \in [Executors -> Checkpoint \cup {None}]
    BY DEF IInv, TypeOK, LocalTypeOK, Start
  <2>5. obs' \in [Executors -> Observations]
    <3>1. CASE obs' = [obs EXCEPT ![e] = Shown[jesse'[sess[e]]]] /\ jesse'[sess[e]] \in ServerStates \ {"absent"}
      BY <3>1, ShownObserved DEF IInv, TypeOK, LocalTypeOK, ServerStates, Observations
    <3>2. CASE \E o \in {"missing", "error"} : obs' = [obs EXCEPT ![e] = o]
      BY <3>2 DEF IInv, TypeOK, LocalTypeOK, Observations
    <3> QED
      BY <3>1, <3>2 DEF IInv, TypeOK, LocalTypeOK, ServerTypeOK, KnownInv, LocalsInv,
            LocalInv, Holding, ServerStates, Start
  <2>6. polls' \in [Executors -> 0..MaxPolls]
    BY DEF IInv, TypeOK, LocalTypeOK, Start
  <2> QED
    BY <2>1, <2>2, <2>3, <2>4, <2>5, <2>6 DEF LocalTypeOK
<1>5. budget' \in [Budgets -> Nat] /\ BudgetInv'
  BY DirectAssumption DEF IInv, TypeOK, BudgetInv, Budgets, Start
<1>6. LocalsInv'
  BY DEF IInv, TypeOK, LocalTypeOK, LocalsInv, LocalInv, Holding, Reading, Replacing,
        Start
<1>7. KnownInv'
  BY CheckpointFields, GrantFields DEF IInv, TypeOK, LocalTypeOK, StoreTypeOK,
        ServerTypeOK, KnownInv, Start
<1>8. NoOrphanWithoutCrash'
  BY DEF IInv, TypeOK, LocalTypeOK, Budgets, NoOrphanWithoutCrash, Start
<1>9. stopped' \in BOOLEAN
  BY Zenon DEF IInv, TypeOK, Start
<1>10. Untroubled' => TokenInv'
  BY DEF IInv, TypeOK, LocalTypeOK, ServerTypeOK, BudgetInv, Untroubled, TokenInv,
        Replacement, Reserved, Start
<1> QED
  BY <1>1, <1>2, <1>3, <1>4, <1>5, <1>6, <1>7, <1>8, <1>9, <1>10 DEF IInv, TypeOK

LEMMA FetchInv ==
    ASSUME NEW e \in Executors, IInv, Fetch(e)
    PROVE  IInv'
<1>1. QueueTypeOK'
  BY DEF IInv, TypeOK, QueueTypeOK, Fetch
<1>2. StoreTypeOK'
  BY DEF IInv, TypeOK, StoreTypeOK, Fetch
<1>3. ServerTypeOK'
  BY DEF IInv, TypeOK, ServerTypeOK, Fetch
<1>4. LocalTypeOK'
  <2>1. pc' \in [Executors -> PCs]
    BY DEF IInv, TypeOK, LocalTypeOK, PCs, Fetch
  <2>2. sess' \in [Executors -> Sessions \cup {None}]
    BY DEF IInv, TypeOK, LocalTypeOK, Fetch
  <2>3. req' \in [Executors -> Editions]
    BY DEF IInv, TypeOK, LocalTypeOK, Fetch
  <2>4. seen' \in [Executors -> Checkpoint \cup {None}]
    BY DEF IInv, TypeOK, LocalTypeOK, Fetch
  <2>5. obs' \in [Executors -> Observations]
    <3>1. CASE /\ obs' = [obs EXCEPT ![e] = Shown[jesse[sess[e]]]]
               /\ jesse[sess[e]] \in ServerStates \ {"absent"}
      BY <3>1, ShownObserved DEF IInv, TypeOK, LocalTypeOK, ServerStates, Observations
    <3>2. CASE \E o \in {"missing", "error", "malformed", "analysis"} : obs' = [obs EXCEPT ![e] = o]
      BY <3>2 DEF IInv, TypeOK, LocalTypeOK, Observations, Outcomes
    <3>3. CASE UNCHANGED obs
      BY <3>3 DEF IInv, TypeOK, LocalTypeOK
    <3> QED
      BY <3>1, <3>2, <3>3 DEF IInv, TypeOK, LocalTypeOK, ServerTypeOK, KnownInv,
            LocalsInv, LocalInv, Holding, Fetch
  <2>6. polls' \in [Executors -> 0..MaxPolls]
    BY DEF IInv, TypeOK, LocalTypeOK, Fetch
  <2> QED
    BY <2>1, <2>2, <2>3, <2>4, <2>5, <2>6 DEF LocalTypeOK
<1>5. budget' \in [Budgets -> Nat] /\ BudgetInv'
  BY DirectAssumption DEF IInv, TypeOK, BudgetInv, Budgets, Fetch
<1>6. LocalsInv'
  BY DEF IInv, TypeOK, LocalTypeOK, LocalsInv, LocalInv, Holding, Reading, Replacing,
        Outcomes, Fetch
<1>7. KnownInv'
  BY DEF IInv, TypeOK, KnownInv, Fetch
<1>8. NoOrphanWithoutCrash'
  BY DEF IInv, TypeOK, LocalTypeOK, Budgets, NoOrphanWithoutCrash, Fetch
<1>9. stopped' \in BOOLEAN
  BY Zenon DEF IInv, TypeOK, Fetch
<1>10. Untroubled' => TokenInv'
  BY DEF IInv, TypeOK, LocalTypeOK, BudgetInv, Untroubled, TokenInv, Replacement,
        Reserved, Fetch
<1> QED
  BY <1>1, <1>2, <1>3, <1>4, <1>5, <1>6, <1>7, <1>8, <1>9, <1>10 DEF IInv, TypeOK

LEMMA ObserveInv ==
    ASSUME NEW e \in Executors, IInv, Observe(e)
    PROVE  IInv'
<1>1. QueueTypeOK'
  BY DEF IInv, TypeOK, QueueTypeOK, Observe
<1>2. StoreTypeOK'
  BY DEF IInv, TypeOK, StoreTypeOK, LocalTypeOK, LocalsInv, LocalInv, Holding,
        Checkpoint, Observe
<1>3. ServerTypeOK'
  BY DEF IInv, TypeOK, ServerTypeOK, Observe
<1>4. LocalTypeOK'
  BY DEF IInv, TypeOK, LocalTypeOK, PCs, Observations, Observe
<1>5. budget' \in [Budgets -> Nat] /\ BudgetInv'
  BY DEF IInv, TypeOK, BudgetInv, Observe
<1>6. LocalsInv'
  BY DEF IInv, TypeOK, LocalTypeOK, LocalsInv, LocalInv, Holding, Reading, Replacing,
        Observe
<1>7. KnownInv'
  BY DEF IInv, TypeOK, KnownInv, LocalsInv, LocalInv, Holding, Observe
<1>8. NoOrphanWithoutCrash'
  BY DEF IInv, TypeOK, NoOrphanWithoutCrash, Observe
<1>9. stopped' \in BOOLEAN
  BY Zenon DEF IInv, TypeOK, Observe
<1>10. Untroubled' => TokenInv'
  BY DEF IInv, TypeOK, Untroubled, TokenInv, Replacement, Reserved, Observe
<1> QED
  BY <1>1, <1>2, <1>3, <1>4, <1>5, <1>6, <1>7, <1>8, <1>9, <1>10 DEF IInv, TypeOK

LEMMA JudgeInv ==
    ASSUME NEW e \in Executors, IInv, Judge(e)
    PROVE  IInv'
<1>1. QueueTypeOK'
  BY DEF IInv, TypeOK, QueueTypeOK, Judge
<1>2. StoreTypeOK'
  BY DEF IInv, TypeOK, StoreTypeOK, Judge
<1>3. ServerTypeOK'
  BY DEF IInv, TypeOK, ServerTypeOK, Judge
<1>4. LocalTypeOK'
  <2>1. pc' \in [Executors -> PCs]
    BY DEF IInv, TypeOK, LocalTypeOK, PCs, Judge
  <2>2. sess' \in [Executors -> Sessions \cup {None}]
    BY DEF IInv, TypeOK, LocalTypeOK, Judge
  <2>3. req' \in [Executors -> Editions]
    BY DEF IInv, TypeOK, LocalTypeOK, Judge
  <2>4. seen' \in [Executors -> Checkpoint \cup {None}]
    BY DEF IInv, TypeOK, LocalTypeOK, Judge
  <2>5. obs' \in [Executors -> Observations]
    BY DEF IInv, TypeOK, LocalTypeOK, Observations, Outcomes, Judge
  <2>6. polls' \in [Executors -> 0..MaxPolls]
    BY DirectAssumption DEF IInv, TypeOK, LocalTypeOK, Judge
  <2> QED
    BY <2>1, <2>2, <2>3, <2>4, <2>5, <2>6 DEF LocalTypeOK
<1>5. budget' \in [Budgets -> Nat] /\ BudgetInv'
  BY DEF IInv, TypeOK, BudgetInv, Judge
<1>6. LocalsInv'
  BY DEF IInv, TypeOK, LocalTypeOK, LocalsInv, LocalInv, Holding, Reading, Replacing,
        Outcomes, Judge
<1>7. KnownInv'
  BY DEF IInv, TypeOK, KnownInv, Judge
<1>8. NoOrphanWithoutCrash'
  BY DEF IInv, TypeOK, LocalTypeOK, NoOrphanWithoutCrash, Judge
<1>9. stopped' \in BOOLEAN
  BY Zenon DEF IInv, TypeOK, Judge
<1>10. Untroubled' => TokenInv'
  BY DEF IInv, TypeOK, LocalTypeOK, Untroubled, TokenInv, Replacement, Reserved, Judge
<1> QED
  BY <1>1, <1>2, <1>3, <1>4, <1>5, <1>6, <1>7, <1>8, <1>9, <1>10 DEF IInv, TypeOK

LEMMA MarkInv ==
    ASSUME NEW e \in Executors, IInv, Mark(e)
    PROVE  IInv'
<1>1. QueueTypeOK'
  BY DEF IInv, TypeOK, QueueTypeOK, Mark
<1>2. StoreTypeOK'
  BY DEF IInv, TypeOK, StoreTypeOK, Checkpoint, Mark
<1>3. ServerTypeOK'
  BY DEF IInv, TypeOK, ServerTypeOK, Mark
<1>4. LocalTypeOK'
  <2>1. pc' \in [Executors -> PCs]
    BY DEF IInv, TypeOK, LocalTypeOK, PCs, Mark
  <2>2. sess' \in [Executors -> Sessions \cup {None}]
    BY DEF IInv, TypeOK, LocalTypeOK, Mark
  <2>3. req' \in [Executors -> Editions]
    BY DEF IInv, TypeOK, LocalTypeOK, Mark
  <2>4. seen' \in [Executors -> Checkpoint \cup {None}]
    BY DEF IInv, TypeOK, LocalTypeOK, Mark
  <2>5. obs' \in [Executors -> Observations]
    BY DEF IInv, TypeOK, LocalTypeOK, Observations, Outcomes, Mark
  <2>6. polls' \in [Executors -> 0..MaxPolls]
    BY DEF IInv, TypeOK, LocalTypeOK, Mark
  <2> QED
    BY <2>1, <2>2, <2>3, <2>4, <2>5, <2>6 DEF LocalTypeOK
<1>5. budget' \in [Budgets -> Nat] /\ BudgetInv'
  BY DEF IInv, TypeOK, BudgetInv, Mark
<1>6. LocalsInv'
  BY DEF IInv, TypeOK, LocalTypeOK, LocalsInv, LocalInv, Holding, Reading, Replacing,
        Outcomes, Mark
<1>7. KnownInv'
  BY DEF IInv, TypeOK, StoreTypeOK, KnownInv, Checkpoint, Mark
<1>8. NoOrphanWithoutCrash'
  BY DEF IInv, TypeOK, LocalTypeOK, NoOrphanWithoutCrash, Mark
<1>9. stopped' \in BOOLEAN
  BY Zenon DEF IInv, TypeOK, Mark
<1>10. Untroubled' => TokenInv'
  BY DEF IInv, TypeOK, LocalTypeOK, Untroubled, TokenInv, Replacement, Reserved, Mark
<1> QED
  BY <1>1, <1>2, <1>3, <1>4, <1>5, <1>6, <1>7, <1>8, <1>9, <1>10 DEF IInv, TypeOK

LEMMA KickInv ==
    ASSUME NEW e \in Executors, IInv, Kick(e)
    PROVE  IInv'
<1>1. QueueTypeOK'
  BY DEF IInv, TypeOK, QueueTypeOK, Kick
<1>2. StoreTypeOK'
  BY DEF IInv, TypeOK, StoreTypeOK, Kick
<1>3. ServerTypeOK'
  BY DEF IInv, TypeOK, ServerTypeOK, ServerStates, Kick
<1>4. LocalTypeOK'
  <2>1. pc' \in [Executors -> PCs]
    BY DEF IInv, TypeOK, LocalTypeOK, PCs, Kick
  <2>2. sess' \in [Executors -> Sessions \cup {None}]
    BY DEF IInv, TypeOK, LocalTypeOK, Kick
  <2>3. req' \in [Executors -> Editions]
    BY DEF IInv, TypeOK, LocalTypeOK, Kick
  <2>4. seen' \in [Executors -> Checkpoint \cup {None}]
    BY DEF IInv, TypeOK, LocalTypeOK, Kick
  <2>5. obs' \in [Executors -> Observations]
    BY DEF IInv, TypeOK, LocalTypeOK, Observations, Outcomes, Kick
  <2>6. polls' \in [Executors -> 0..MaxPolls]
    BY DEF IInv, TypeOK, LocalTypeOK, Kick
  <2> QED
    BY <2>1, <2>2, <2>3, <2>4, <2>5, <2>6 DEF LocalTypeOK
<1>5. budget' \in [Budgets -> Nat] /\ BudgetInv'
  BY DirectAssumption DEF IInv, TypeOK, BudgetInv, Budgets, Kick
<1>6. LocalsInv'
  BY DEF IInv, TypeOK, LocalTypeOK, LocalsInv, LocalInv, Holding, Reading, Replacing,
        Outcomes, Kick
<1>7. KnownInv'
  BY CheckpointFields, GrantFields DEF IInv, TypeOK, LocalTypeOK, StoreTypeOK,
        ServerTypeOK, KnownInv, Kick
<1>8. NoOrphanWithoutCrash'
  BY DEF IInv, TypeOK, LocalTypeOK, Budgets, NoOrphanWithoutCrash, Kick
<1>9. stopped' \in BOOLEAN
  BY Zenon DEF IInv, TypeOK, Kick
<1>10. Untroubled' => TokenInv'
  BY DEF IInv, TypeOK, LocalTypeOK, ServerTypeOK, BudgetInv, Untroubled, TokenInv,
        Replacement, Reserved, Kick
<1> QED
  BY <1>1, <1>2, <1>3, <1>4, <1>5, <1>6, <1>7, <1>8, <1>9, <1>10 DEF IInv, TypeOK

LEMMA SaveSuccessInv ==
    ASSUME NEW e \in Executors, IInv, SaveSuccess(e)
    PROVE  IInv'
<1>1. QueueTypeOK'
  BY DEF IInv, TypeOK, QueueTypeOK, SaveSuccess
<1>2. StoreTypeOK'
  BY DEF IInv, TypeOK, StoreTypeOK, LocalTypeOK, LocalsInv, LocalInv, Holding,
        Checkpoint, SaveSuccess
<1>3. ServerTypeOK'
  BY DEF IInv, TypeOK, ServerTypeOK, SaveSuccess
<1>4. LocalTypeOK'
  BY DEF IInv, TypeOK, LocalTypeOK, PCs, Observations, Outcomes, SaveSuccess
<1>5. budget' \in [Budgets -> Nat] /\ BudgetInv'
  BY DEF IInv, TypeOK, BudgetInv, SaveSuccess
<1>6. LocalsInv'
  BY DEF IInv, TypeOK, LocalTypeOK, LocalsInv, LocalInv, Holding, Reading, Replacing,
        Outcomes, SaveSuccess
<1>7. KnownInv'
  BY DEF IInv, TypeOK, KnownInv, LocalsInv, LocalInv, Holding, SaveSuccess
<1>8. NoOrphanWithoutCrash'
  BY DEF IInv, TypeOK, NoOrphanWithoutCrash, SaveSuccess
<1>9. stopped' \in BOOLEAN
  BY Zenon DEF IInv, TypeOK, SaveSuccess
<1>10. Untroubled' => TokenInv'
  BY DEF IInv, TypeOK, Untroubled, TokenInv, Replacement, Reserved, SaveSuccess
<1> QED
  BY <1>1, <1>2, <1>3, <1>4, <1>5, <1>6, <1>7, <1>8, <1>9, <1>10 DEF IInv, TypeOK

LEMMA SaveFailureInv ==
    ASSUME NEW e \in Executors, IInv, SaveFailure(e)
    PROVE  IInv'
<1>1. QueueTypeOK'
  BY DEF IInv, TypeOK, QueueTypeOK, SaveFailure
<1>2. StoreTypeOK'
  BY DEF IInv, TypeOK, StoreTypeOK, LocalTypeOK, LocalsInv, LocalInv, Holding,
        Checkpoint, SaveFailure
<1>3. ServerTypeOK'
  BY DEF IInv, TypeOK, ServerTypeOK, SaveFailure
<1>4. LocalTypeOK'
  BY DEF IInv, TypeOK, LocalTypeOK, PCs, Observations, Outcomes, SaveFailure
<1>5. budget' \in [Budgets -> Nat] /\ BudgetInv'
  BY DEF IInv, TypeOK, BudgetInv, SaveFailure
<1>6. LocalsInv'
  BY DEF IInv, TypeOK, LocalTypeOK, LocalsInv, LocalInv, Holding, Reading, Replacing,
        Outcomes, SaveFailure
<1>7. KnownInv'
  BY DEF IInv, TypeOK, KnownInv, LocalsInv, LocalInv, Holding, SaveFailure
<1>8. NoOrphanWithoutCrash'
  BY DEF IInv, TypeOK, NoOrphanWithoutCrash, SaveFailure
<1>9. stopped' \in BOOLEAN
  BY Zenon DEF IInv, TypeOK, SaveFailure
<1>10. Untroubled' => TokenInv'
  BY DEF IInv, TypeOK, Untroubled, TokenInv, Replacement, Reserved, SaveFailure
<1> QED
  BY <1>1, <1>2, <1>3, <1>4, <1>5, <1>6, <1>7, <1>8, <1>9, <1>10 DEF IInv, TypeOK

LEMMA ExceptInv ==
    ASSUME NEW e \in Executors, IInv, Except(e)
    PROVE  IInv'
<1>1. QueueTypeOK'
  BY DEF IInv, TypeOK, QueueTypeOK, Except
<1>2. StoreTypeOK'
  BY DEF IInv, TypeOK, StoreTypeOK, Except
<1>3. ServerTypeOK'
  BY DEF IInv, TypeOK, ServerTypeOK, Except
<1>4. LocalTypeOK'
  BY DEF IInv, TypeOK, LocalTypeOK, StoreTypeOK, PCs, Observations, Outcomes, Except
<1>5. budget' \in [Budgets -> Nat] /\ BudgetInv'
  BY DEF IInv, TypeOK, BudgetInv, Except
<1>6. LocalsInv'
  BY DEF IInv, TypeOK, LocalTypeOK, LocalsInv, LocalInv, Holding, Reading, Replacing,
        Outcomes, Except
<1>7. KnownInv'
  BY DEF IInv, TypeOK, KnownInv, Except
<1>8. NoOrphanWithoutCrash'
  BY DEF IInv, TypeOK, LocalTypeOK, NoOrphanWithoutCrash, Except
<1>9. stopped' \in BOOLEAN
  BY Zenon DEF IInv, TypeOK, Except
<1>10. Untroubled' => TokenInv'
  BY DEF IInv, TypeOK, LocalTypeOK, Untroubled, TokenInv, Replacement, Reserved, Except
<1> QED
  BY <1>1, <1>2, <1>3, <1>4, <1>5, <1>6, <1>7, <1>8, <1>9, <1>10 DEF IInv, TypeOK

LEMMA RecoverMissingInv ==
    ASSUME NEW e \in Executors, IInv, RecoverMissing(e)
    PROVE  IInv'
<1>0. \/ UNCHANGED <<grant, chk>>
      \/ /\ chk \in Checkpoint /\ chk' = None
         /\ \/ grant' = grant
            \/ grant' = [old |-> chk.session, reserved |-> FALSE, replacement |-> None]
  BY DEF IInv, TypeOK, StoreTypeOK, RecoverMissing
<1>1. QueueTypeOK'
  BY DEF IInv, TypeOK, QueueTypeOK, RecoverMissing
<1>2. StoreTypeOK'
  <2>1. CASE UNCHANGED <<grant, chk>>
    BY <2>1 DEF IInv, TypeOK, StoreTypeOK
  <2>2. CASE chk \in Checkpoint /\ chk' = None /\ grant' = grant
    BY <2>2 DEF IInv, TypeOK, StoreTypeOK
  <2>3. CASE /\ chk \in Checkpoint /\ chk' = None
             /\ grant' = [old |-> chk.session, reserved |-> FALSE, replacement |-> None]
    BY <2>3, NewGrant, CheckpointFields DEF StoreTypeOK
  <2> QED
    BY <1>0, <2>1, <2>2, <2>3
<1>3. ServerTypeOK'
  BY DEF IInv, TypeOK, ServerTypeOK, RecoverMissing
<1>4. LocalTypeOK'
  <2>1. pc' \in [Executors -> PCs]
    BY DEF IInv, TypeOK, LocalTypeOK, PCs, RecoverMissing
  <2>2. sess' \in [Executors -> Sessions \cup {None}]
    BY DEF IInv, TypeOK, LocalTypeOK, RecoverMissing
  <2>3. req' \in [Executors -> Editions]
    BY DEF IInv, TypeOK, LocalTypeOK, RecoverMissing
  <2>4. seen' \in [Executors -> Checkpoint \cup {None}]
    BY DEF IInv, TypeOK, LocalTypeOK, RecoverMissing
  <2>5. obs' \in [Executors -> Observations]
    BY DEF IInv, TypeOK, LocalTypeOK, Observations, Outcomes, RecoverMissing
  <2>6. polls' \in [Executors -> 0..MaxPolls]
    BY DEF IInv, TypeOK, LocalTypeOK, RecoverMissing
  <2> QED
    BY <2>1, <2>2, <2>3, <2>4, <2>5, <2>6 DEF LocalTypeOK
<1>5. budget' \in [Budgets -> Nat] /\ BudgetInv'
  BY DEF IInv, TypeOK, BudgetInv, RecoverMissing
<1>6. LocalsInv'
  BY DEF IInv, TypeOK, LocalTypeOK, LocalsInv, LocalInv, Holding, Reading, Replacing,
        Outcomes, RecoverMissing
<1>7. KnownInv'
  BY DEF IInv, TypeOK, KnownInv, RecoverMissing
<1>8. NoOrphanWithoutCrash'
  BY DEF IInv, TypeOK, LocalTypeOK, NoOrphanWithoutCrash, RecoverMissing
<1>9. stopped' \in BOOLEAN
  BY Zenon DEF IInv, TypeOK, RecoverMissing
<1>10. Untroubled' => TokenInv'
  BY DEF IInv, TypeOK, LocalTypeOK, Untroubled, TokenInv, Replacement, Reserved,
        RecoverMissing
<1> QED
  BY <1>1, <1>2, <1>3, <1>4, <1>5, <1>6, <1>7, <1>8, <1>9, <1>10 DEF IInv, TypeOK

LEMMA SaveStartFailedInv ==
    ASSUME NEW e \in Executors, IInv, SaveStartFailed(e)
    PROVE  IInv'
<1>1. QueueTypeOK'
  BY DEF IInv, TypeOK, QueueTypeOK, SaveStartFailed
<1>2. StoreTypeOK'
  BY DEF IInv, TypeOK, StoreTypeOK, LocalTypeOK, LocalsInv, LocalInv, Reading,
        Checkpoint, SaveStartFailed
<1>3. ServerTypeOK'
  BY DEF IInv, TypeOK, ServerTypeOK, SaveStartFailed
<1>4. LocalTypeOK'
  BY DEF IInv, TypeOK, LocalTypeOK, PCs, Observations, Outcomes, SaveStartFailed
<1>5. budget' \in [Budgets -> Nat] /\ BudgetInv'
  BY DEF IInv, TypeOK, BudgetInv, SaveStartFailed
<1>6. LocalsInv'
  BY DEF IInv, TypeOK, LocalTypeOK, LocalsInv, LocalInv, Holding, Reading, Replacing,
        Outcomes, SaveStartFailed
<1>7. KnownInv'
  BY DEF IInv, TypeOK, KnownInv, LocalsInv, LocalInv, Reading, SaveStartFailed
<1>8. NoOrphanWithoutCrash'
  BY DEF IInv, TypeOK, NoOrphanWithoutCrash, SaveStartFailed
<1>9. stopped' \in BOOLEAN
  BY Zenon DEF IInv, TypeOK, SaveStartFailed
<1>10. Untroubled' => TokenInv'
  BY DEF IInv, TypeOK, Untroubled, TokenInv, Replacement, Reserved, SaveStartFailed
<1> QED
  BY <1>1, <1>2, <1>3, <1>4, <1>5, <1>6, <1>7, <1>8, <1>9, <1>10 DEF IInv, TypeOK

LEMMA InitializeFailsInv ==
    ASSUME NEW e \in Executors, IInv, InitializeFails(e)
    PROVE  IInv'
<1>1. QueueTypeOK'
  BY DirectAssumption DEF IInv, TypeOK, QueueTypeOK, InitializeFails
<1>2. StoreTypeOK'
  BY DEF IInv, TypeOK, StoreTypeOK, InitializeFails
<1>3. ServerTypeOK'
  BY DEF IInv, TypeOK, ServerTypeOK, InitializeFails
<1>4. LocalTypeOK'
  BY DEF IInv, TypeOK, LocalTypeOK, PCs, Observations, Outcomes, InitializeFails
<1>5. budget' \in [Budgets -> Nat] /\ BudgetInv'
  BY DirectAssumption DEF IInv, TypeOK, BudgetInv, Budgets, InitializeFails
<1>6. LocalsInv'
  BY DEF IInv, TypeOK, LocalTypeOK, LocalsInv, LocalInv, Holding, Reading, Replacing,
        Outcomes, InitializeFails
<1>7. KnownInv'
  BY DEF IInv, TypeOK, KnownInv, InitializeFails
<1>8. NoOrphanWithoutCrash'
  BY DEF IInv, TypeOK, LocalTypeOK, Budgets, NoOrphanWithoutCrash, InitializeFails
<1>9. stopped' \in BOOLEAN
  BY Zenon DEF IInv, TypeOK, InitializeFails
<1>10. Untroubled' => TokenInv'
  BY DEF IInv, TypeOK, LocalTypeOK, BudgetInv, Untroubled, TokenInv, Replacement,
        Reserved, InitializeFails
<1> QED
  BY <1>1, <1>2, <1>3, <1>4, <1>5, <1>6, <1>7, <1>8, <1>9, <1>10 DEF IInv, TypeOK

LEMMA ReportInv ==
    ASSUME NEW e \in Executors, IInv, Report(e)
    PROVE  IInv'
<1>1. QueueTypeOK'
  BY DirectAssumption DEF IInv, TypeOK, QueueTypeOK, Report
<1>2. StoreTypeOK'
  BY DEF IInv, TypeOK, StoreTypeOK, Report
<1>3. ServerTypeOK'
  BY DEF IInv, TypeOK, ServerTypeOK, Report
<1>4. LocalTypeOK'
  <2>1. pc' \in [Executors -> PCs]
    BY DEF IInv, TypeOK, LocalTypeOK, PCs, Report
  <2>2. sess' \in [Executors -> Sessions \cup {None}] /\ req' \in [Executors -> Editions]
    BY DEF IInv, TypeOK, LocalTypeOK, Report
  <2>3. seen' \in [Executors -> Checkpoint \cup {None}]
    BY DEF IInv, TypeOK, LocalTypeOK, Report
  <2>4. obs' \in [Executors -> Observations]
    BY DEF IInv, TypeOK, LocalTypeOK, Observations, Outcomes, Report
  <2>5. polls' \in [Executors -> 0..MaxPolls]
    BY DirectAssumption DEF IInv, TypeOK, LocalTypeOK, Report
  <2> QED
    BY <2>1, <2>2, <2>3, <2>4, <2>5 DEF LocalTypeOK
<1>5. budget' \in [Budgets -> Nat] /\ BudgetInv'
  BY DEF IInv, TypeOK, BudgetInv, Report
<1>6. LocalsInv'
  BY DEF IInv, TypeOK, LocalTypeOK, LocalsInv, LocalInv, Holding, Reading, Replacing,
        Outcomes, Report
<1>7. KnownInv'
  BY DEF IInv, TypeOK, KnownInv, Report
<1>8. NoOrphanWithoutCrash'
  BY DEF IInv, TypeOK, LocalTypeOK, NoOrphanWithoutCrash, Report
<1>9. stopped' \in BOOLEAN
  BY Zenon DEF IInv, TypeOK, Report
<1>10. Untroubled' => TokenInv'
  BY DEF IInv, TypeOK, LocalTypeOK, Untroubled, TokenInv, Replacement, Reserved, Report
<1> QED
  BY <1>1, <1>2, <1>3, <1>4, <1>5, <1>6, <1>7, <1>8, <1>9, <1>10 DEF IInv, TypeOK

LEMMA RecordInv ==
    ASSUME NEW e \in Executors, IInv, Record(e)
    PROVE  IInv'
<1>1. QueueTypeOK'
  BY DirectAssumption DEF IInv, TypeOK, QueueTypeOK, Record
<1>2. StoreTypeOK'
  BY DEF IInv, TypeOK, StoreTypeOK, Record
<1>3. ServerTypeOK'
  BY DEF IInv, TypeOK, ServerTypeOK, Record
<1>4. LocalTypeOK'
  BY DEF IInv, TypeOK, LocalTypeOK, PCs, Observations, Outcomes, Record
<1>5. budget' \in [Budgets -> Nat] /\ BudgetInv'
  BY DEF IInv, TypeOK, BudgetInv, Record
<1>6. LocalsInv'
  BY DEF IInv, TypeOK, LocalTypeOK, LocalsInv, LocalInv, Holding, Reading, Replacing,
        Outcomes, Record
<1>7. KnownInv'
  BY DEF IInv, TypeOK, KnownInv, Record
<1>8. NoOrphanWithoutCrash'
  BY DEF IInv, TypeOK, NoOrphanWithoutCrash, Record
<1>9. stopped' \in BOOLEAN
  BY Zenon DEF IInv, TypeOK, Record
<1>10. Untroubled' => TokenInv'
  BY DEF IInv, TypeOK, Untroubled, TokenInv, Replacement, Reserved, Record
<1> QED
  BY <1>1, <1>2, <1>3, <1>4, <1>5, <1>6, <1>7, <1>8, <1>9, <1>10 DEF IInv, TypeOK

LEMMA ApplyInv ==
    ASSUME NEW e \in Executors, IInv, Apply(e)
    PROVE  IInv'
<1>1. QueueTypeOK'
  BY DEF IInv, TypeOK, QueueTypeOK, LocalTypeOK, LocalsInv, LocalInv, Apply
<1>2. StoreTypeOK'
  BY DEF IInv, TypeOK, StoreTypeOK, Apply
<1>3. ServerTypeOK'
  BY DEF IInv, TypeOK, ServerTypeOK, Apply
<1>4. LocalTypeOK'
  <2>1. pc' \in [Executors -> PCs]
    BY DEF IInv, TypeOK, LocalTypeOK, PCs, Apply
  <2>2. sess' \in [Executors -> Sessions \cup {None}]
    BY DEF IInv, TypeOK, LocalTypeOK, Apply
  <2>3. req' \in [Executors -> Editions]
    BY DirectAssumption DEF IInv, TypeOK, LocalTypeOK, Editions, Apply
  <2>4. seen' \in [Executors -> Checkpoint \cup {None}]
    BY DEF IInv, TypeOK, LocalTypeOK, Apply
  <2>5. obs' \in [Executors -> Observations]
    BY DEF IInv, TypeOK, LocalTypeOK, Observations, Apply
  <2>6. polls' \in [Executors -> 0..MaxPolls]
    BY DirectAssumption DEF IInv, TypeOK, LocalTypeOK, Apply
  <2> QED
    BY <2>1, <2>2, <2>3, <2>4, <2>5, <2>6 DEF LocalTypeOK
<1>5. budget' \in [Budgets -> Nat] /\ BudgetInv'
  BY DEF IInv, TypeOK, BudgetInv, Apply
<1>6. LocalsInv'
  BY DEF IInv, TypeOK, LocalTypeOK, LocalsInv, LocalInv, Holding, Reading, Replacing,
        Apply
<1>7. KnownInv'
  BY DEF IInv, TypeOK, KnownInv, Apply
<1>8. NoOrphanWithoutCrash'
  BY DEF IInv, TypeOK, NoOrphanWithoutCrash, Apply
<1>9. stopped' \in BOOLEAN
  BY Zenon DEF IInv, TypeOK, Apply
<1>10. Untroubled' => TokenInv'
  BY DEF IInv, TypeOK, Untroubled, TokenInv, Replacement, Reserved, Apply
<1> QED
  BY <1>1, <1>2, <1>3, <1>4, <1>5, <1>6, <1>7, <1>8, <1>9, <1>10 DEF IInv, TypeOK

LEMMA CrashInv ==
    ASSUME NEW e \in Executors, IInv, Crash(e)
    PROVE  IInv'
<1>1. QueueTypeOK'
  BY DEF IInv, TypeOK, QueueTypeOK, Crash
<1>2. StoreTypeOK'
  BY DEF IInv, TypeOK, StoreTypeOK, Crash
<1>3. ServerTypeOK'
  BY DEF IInv, TypeOK, ServerTypeOK, Crash
<1>4. LocalTypeOK'
  <2>1. pc' \in [Executors -> PCs]
    BY DEF IInv, TypeOK, LocalTypeOK, PCs, Crash
  <2>2. sess' \in [Executors -> Sessions \cup {None}]
    BY DEF IInv, TypeOK, LocalTypeOK, Crash
  <2>3. req' \in [Executors -> Editions]
    BY DirectAssumption DEF IInv, TypeOK, LocalTypeOK, Editions, Crash
  <2>4. seen' \in [Executors -> Checkpoint \cup {None}]
    BY DEF IInv, TypeOK, LocalTypeOK, Crash
  <2>5. obs' \in [Executors -> Observations]
    BY DEF IInv, TypeOK, LocalTypeOK, Observations, Crash
  <2>6. polls' \in [Executors -> 0..MaxPolls]
    BY DirectAssumption DEF IInv, TypeOK, LocalTypeOK, Crash
  <2> QED
    BY <2>1, <2>2, <2>3, <2>4, <2>5, <2>6 DEF LocalTypeOK
<1>5. budget' \in [Budgets -> Nat] /\ BudgetInv'
  BY DirectAssumption DEF IInv, TypeOK, BudgetInv, Budgets, Crash
<1>6. LocalsInv'
  BY DEF IInv, TypeOK, LocalTypeOK, LocalsInv, LocalInv, Holding, Reading, Replacing,
        Crash
<1>7. KnownInv'
  BY DEF IInv, TypeOK, KnownInv, Crash
<1>8. NoOrphanWithoutCrash'
  BY DEF IInv, TypeOK, BudgetInv, Budgets, NoOrphanWithoutCrash, Crash
<1>9. stopped' \in BOOLEAN
  BY Zenon DEF IInv, TypeOK, Crash
<1>10. Untroubled' => TokenInv'
  BY DEF IInv, TypeOK, BudgetInv, Budgets, Untroubled, Crash
<1> QED
  BY <1>1, <1>2, <1>3, <1>4, <1>5, <1>6, <1>7, <1>8, <1>9, <1>10 DEF IInv, TypeOK

LEMMA ProgressInv ==
    ASSUME NEW s \in Sessions, IInv, Progress(s)
    PROVE  IInv'
<1>1. QueueTypeOK'
  BY DEF IInv, TypeOK, QueueTypeOK, Progress
<1>2. StoreTypeOK'
  BY DEF IInv, TypeOK, StoreTypeOK, Progress
<1>3. ServerTypeOK'
  BY DEF IInv, TypeOK, ServerTypeOK, ServerStates, Progress
<1>4. LocalTypeOK'
  BY DEF IInv, TypeOK, LocalTypeOK, Progress
<1>5. budget' \in [Budgets -> Nat] /\ BudgetInv'
  BY DEF IInv, TypeOK, BudgetInv, Progress
<1>6. LocalsInv'
  BY DEF IInv, TypeOK, LocalsInv, LocalInv, Progress
<1>7. KnownInv'
  BY CheckpointFields, GrantFields DEF IInv, TypeOK, LocalTypeOK, StoreTypeOK,
        ServerTypeOK, KnownInv, Progress
<1>8. NoOrphanWithoutCrash'
  BY DEF IInv, TypeOK, NoOrphanWithoutCrash, Progress
<1>9. stopped' \in BOOLEAN
  BY Zenon DEF IInv, TypeOK, Progress
<1>10. Untroubled' => TokenInv'
  BY DEF IInv, TypeOK, ServerTypeOK, Untroubled, TokenInv, Replacement, Reserved,
        Progress
<1> QED
  BY <1>1, <1>2, <1>3, <1>4, <1>5, <1>6, <1>7, <1>8, <1>9, <1>10 DEF IInv, TypeOK

LEMMA ForgetInv ==
    ASSUME NEW s \in Sessions, IInv, Forget(s)
    PROVE  IInv'
<1>1. QueueTypeOK'
  BY DEF IInv, TypeOK, QueueTypeOK, Forget
<1>2. StoreTypeOK'
  BY DEF IInv, TypeOK, StoreTypeOK, Forget
<1>3. ServerTypeOK'
  BY DEF IInv, TypeOK, ServerTypeOK, Forget
<1>4. LocalTypeOK'
  BY DEF IInv, TypeOK, LocalTypeOK, Forget
<1>5. budget' \in [Budgets -> Nat] /\ BudgetInv'
  BY DEF IInv, TypeOK, BudgetInv, Budgets, Forget
<1>6. LocalsInv'
  BY DEF IInv, TypeOK, LocalsInv, LocalInv, Forget
<1>7. KnownInv'
  BY DEF IInv, TypeOK, KnownInv, Forget
<1>8. NoOrphanWithoutCrash'
  BY DEF IInv, TypeOK, NoOrphanWithoutCrash, Forget
<1>9. stopped' \in BOOLEAN
  BY Zenon DEF IInv, TypeOK, Forget
<1>10. Untroubled' => TokenInv'
  BY DEF IInv, TypeOK, Untroubled, TokenInv, Replacement, Reserved, Forget
<1> QED
  BY <1>1, <1>2, <1>3, <1>4, <1>5, <1>6, <1>7, <1>8, <1>9, <1>10 DEF IInv, TypeOK

LEMMA ClaimRecoveredInv ==
    ASSUME IInv, ClaimRecovered
    PROVE  IInv'
<1>1. QueueTypeOK'
  BY DEF IInv, TypeOK, QueueTypeOK, ClaimRecovered
<1>2. StoreTypeOK'
  BY DEF IInv, TypeOK, StoreTypeOK, ClaimRecovered
<1>3. ServerTypeOK'
  BY DEF IInv, TypeOK, ServerTypeOK, ClaimRecovered
<1>4. LocalTypeOK'
  BY DEF IInv, TypeOK, LocalTypeOK, ClaimRecovered
<1>5. budget' \in [Budgets -> Nat] /\ BudgetInv'
  BY DEF IInv, TypeOK, BudgetInv, Budgets, ClaimRecovered
<1>6. LocalsInv'
  BY DEF IInv, TypeOK, LocalsInv, LocalInv, ClaimRecovered
<1>7. KnownInv'
  BY DEF IInv, TypeOK, KnownInv, ClaimRecovered
<1>8. NoOrphanWithoutCrash'
  BY DEF IInv, TypeOK, Budgets, NoOrphanWithoutCrash, ClaimRecovered
<1>9. stopped' \in BOOLEAN
  BY Zenon DEF IInv, TypeOK, ClaimRecovered
<1>10. Untroubled' => TokenInv'
  BY DEF IInv, TypeOK, Budgets, Untroubled, TokenInv, Replacement, Reserved,
        ClaimRecovered
<1> QED
  BY <1>1, <1>2, <1>3, <1>4, <1>5, <1>6, <1>7, <1>8, <1>9, <1>10 DEF IInv, TypeOK

LEMMA BackoffEndsInv ==
    ASSUME IInv, BackoffEnds
    PROVE  IInv'
<1>1. QueueTypeOK'
  BY DEF IInv, TypeOK, QueueTypeOK, BackoffEnds
<1>2. StoreTypeOK'
  BY DEF IInv, TypeOK, StoreTypeOK, BackoffEnds
<1>3. ServerTypeOK'
  BY DEF IInv, TypeOK, ServerTypeOK, BackoffEnds
<1>4. LocalTypeOK'
  BY DEF IInv, TypeOK, LocalTypeOK, BackoffEnds
<1>5. budget' \in [Budgets -> Nat] /\ BudgetInv'
  BY DEF IInv, TypeOK, BudgetInv, BackoffEnds
<1>6. LocalsInv'
  BY DEF IInv, TypeOK, LocalsInv, LocalInv, BackoffEnds
<1>7. KnownInv'
  BY DEF IInv, TypeOK, KnownInv, BackoffEnds
<1>8. NoOrphanWithoutCrash'
  BY DEF IInv, TypeOK, NoOrphanWithoutCrash, BackoffEnds
<1>9. stopped' \in BOOLEAN
  BY Zenon DEF IInv, TypeOK, BackoffEnds
<1>10. Untroubled' => TokenInv'
  BY DEF IInv, TypeOK, Untroubled, TokenInv, Replacement, Reserved, BackoffEnds
<1> QED
  BY <1>1, <1>2, <1>3, <1>4, <1>5, <1>6, <1>7, <1>8, <1>9, <1>10 DEF IInv, TypeOK

LEMMA ResolveBlockedInv ==
    ASSUME IInv, ResolveBlocked
    PROVE  IInv'
<1>1. QueueTypeOK'
  BY DEF IInv, TypeOK, QueueTypeOK, ResolveBlocked
<1>2. StoreTypeOK'
  BY DEF IInv, TypeOK, StoreTypeOK, ResolveBlocked
<1>3. ServerTypeOK'
  BY DEF IInv, TypeOK, ServerTypeOK, ResolveBlocked
<1>4. LocalTypeOK'
  BY DEF IInv, TypeOK, LocalTypeOK, ResolveBlocked
<1>5. budget' \in [Budgets -> Nat] /\ BudgetInv'
  BY DirectAssumption DEF IInv, TypeOK, QueueTypeOK, BudgetInv, Budgets, Editions,
        ResolveBlocked
<1>6. LocalsInv'
  BY DEF IInv, TypeOK, LocalsInv, LocalInv, ResolveBlocked
<1>7. KnownInv'
  BY DEF IInv, TypeOK, KnownInv, ResolveBlocked
<1>8. NoOrphanWithoutCrash'
  BY DEF IInv, TypeOK, NoOrphanWithoutCrash, ResolveBlocked
<1>9. stopped' \in BOOLEAN
  BY Zenon DEF IInv, TypeOK, ResolveBlocked
<1>10. Untroubled' => TokenInv'
  BY DEF IInv, TypeOK, QueueTypeOK, BudgetInv, Budgets, Editions, Untroubled,
        ResolveBlocked
<1> QED
  BY <1>1, <1>2, <1>3, <1>4, <1>5, <1>6, <1>7, <1>8, <1>9, <1>10 DEF IInv, TypeOK

LEMMA RepairRoutesInv ==
    ASSUME IInv, RepairRoutes
    PROVE  IInv'
<1>0. \/ UNCHANGED <<grant, chk>>
      \/ /\ chk \in Checkpoint /\ chk' = None
         /\ \/ grant' = grant
            \/ grant' = [old |-> chk.session, reserved |-> FALSE, replacement |-> None]
  BY DEF IInv, TypeOK, StoreTypeOK, RepairRoutes
<1>1. QueueTypeOK'
  BY DirectAssumption DEF IInv, TypeOK, QueueTypeOK, BudgetInv, Budgets, Editions,
        RepairRoutes
<1>2. StoreTypeOK'
  <2>1. CASE UNCHANGED <<grant, chk>>
    BY <2>1 DEF IInv, TypeOK, StoreTypeOK
  <2>2. CASE chk \in Checkpoint /\ chk' = None /\ grant' = grant
    BY <2>2 DEF IInv, TypeOK, StoreTypeOK
  <2>3. CASE /\ chk \in Checkpoint /\ chk' = None
             /\ grant' = [old |-> chk.session, reserved |-> FALSE, replacement |-> None]
    BY <2>3, NewGrant, CheckpointFields DEF StoreTypeOK
  <2> QED
    BY <1>0, <2>1, <2>2, <2>3
<1>3. ServerTypeOK'
  BY DEF IInv, TypeOK, ServerTypeOK, RepairRoutes
<1>4. LocalTypeOK'
  BY DEF IInv, TypeOK, LocalTypeOK, RepairRoutes
<1>5. budget' \in [Budgets -> Nat] /\ BudgetInv'
  BY DEF IInv, TypeOK, QueueTypeOK, BudgetInv, Budgets, Editions, RepairRoutes
<1>6. LocalsInv'
  BY DEF IInv, TypeOK, LocalsInv, LocalInv, RepairRoutes
<1>7. KnownInv'
  BY DEF IInv, TypeOK, KnownInv, RepairRoutes
<1>8. NoOrphanWithoutCrash'
  BY DEF IInv, TypeOK, NoOrphanWithoutCrash, RepairRoutes
<1>9. stopped' \in BOOLEAN
  BY Zenon DEF IInv, TypeOK, RepairRoutes
<1>10. Untroubled' => TokenInv'
  BY DEF IInv, TypeOK, QueueTypeOK, BudgetInv, Budgets, Editions, Untroubled,
        RepairRoutes
<1> QED
  BY <1>1, <1>2, <1>3, <1>4, <1>5, <1>6, <1>7, <1>8, <1>9, <1>10 DEF IInv, TypeOK

LEMMA PlanZombieInv ==
    ASSUME IInv, PlanZombie
    PROVE  IInv'
<1>1. QueueTypeOK'
  BY CheckpointFields DEF IInv, TypeOK, QueueTypeOK, StoreTypeOK, PlanZombie
<1>2. StoreTypeOK'
  BY DEF IInv, TypeOK, StoreTypeOK, PlanZombie
<1>3. ServerTypeOK'
  BY DEF IInv, TypeOK, ServerTypeOK, PlanZombie
<1>4. LocalTypeOK'
  BY DEF IInv, TypeOK, LocalTypeOK, PlanZombie
<1>5. budget' \in [Budgets -> Nat] /\ BudgetInv'
  BY DirectAssumption DEF IInv, TypeOK, QueueTypeOK, BudgetInv, Budgets, Editions,
        PlanZombie
<1>6. LocalsInv'
  BY DEF IInv, TypeOK, LocalsInv, LocalInv, PlanZombie
<1>7. KnownInv'
  BY DEF IInv, TypeOK, KnownInv, PlanZombie
<1>8. NoOrphanWithoutCrash'
  BY DEF IInv, TypeOK, NoOrphanWithoutCrash, PlanZombie
<1>9. stopped' \in BOOLEAN
  BY Zenon DEF IInv, TypeOK, PlanZombie
<1>10. Untroubled' => TokenInv'
  BY DEF IInv, TypeOK, QueueTypeOK, BudgetInv, Budgets, Editions, Untroubled, PlanZombie
<1> QED
  BY <1>1, <1>2, <1>3, <1>4, <1>5, <1>6, <1>7, <1>8, <1>9, <1>10 DEF IInv, TypeOK

LEMMA ApplyZombieInv ==
    ASSUME IInv, ApplyZombie
    PROVE  IInv'
<1>0. \/ UNCHANGED <<grant, chk>>
      \/ /\ chk \in Checkpoint /\ chk' = None
         /\ \/ grant' = grant
            \/ grant' = [old |-> chk.session, reserved |-> FALSE, replacement |-> None]
  BY DEF IInv, TypeOK, StoreTypeOK, ApplyZombie
<1>1. QueueTypeOK'
  BY DEF IInv, TypeOK, QueueTypeOK, ApplyZombie
<1>2. StoreTypeOK'
  <2>1. CASE UNCHANGED <<grant, chk>>
    BY <2>1 DEF IInv, TypeOK, StoreTypeOK
  <2>2. CASE chk \in Checkpoint /\ chk' = None /\ grant' = grant
    BY <2>2 DEF IInv, TypeOK, StoreTypeOK
  <2>3. CASE /\ chk \in Checkpoint /\ chk' = None
             /\ grant' = [old |-> chk.session, reserved |-> FALSE, replacement |-> None]
    BY <2>3, NewGrant, CheckpointFields DEF StoreTypeOK
  <2> QED
    BY <1>0, <2>1, <2>2, <2>3
<1>3. ServerTypeOK'
  BY DEF IInv, TypeOK, ServerTypeOK, ApplyZombie
<1>4. LocalTypeOK'
  BY DEF IInv, TypeOK, LocalTypeOK, ApplyZombie
<1>5. budget' \in [Budgets -> Nat] /\ BudgetInv'
  BY DEF IInv, TypeOK, BudgetInv, ApplyZombie
<1>6. LocalsInv'
  BY DEF IInv, TypeOK, LocalsInv, LocalInv, ApplyZombie
<1>7. KnownInv'
  BY DEF IInv, TypeOK, KnownInv, ApplyZombie
<1>8. NoOrphanWithoutCrash'
  BY DEF IInv, TypeOK, NoOrphanWithoutCrash, ApplyZombie
<1>9. stopped' \in BOOLEAN
  BY Zenon DEF IInv, TypeOK, ApplyZombie
<1>10. Untroubled' => TokenInv'
  BY DEF IInv, TypeOK, Untroubled, TokenInv, ApplyZombie
<1> QED
  BY <1>1, <1>2, <1>3, <1>4, <1>5, <1>6, <1>7, <1>8, <1>9, <1>10 DEF IInv, TypeOK

LEMMA PlanOrphanInv ==
    ASSUME IInv, PlanOrphan
    PROVE  IInv'
<1>1. QueueTypeOK'
  BY GrantFields DEF IInv, TypeOK, QueueTypeOK, StoreTypeOK, PlanOrphan
<1>2. StoreTypeOK'
  BY DEF IInv, TypeOK, StoreTypeOK, PlanOrphan
<1>3. ServerTypeOK'
  BY DEF IInv, TypeOK, ServerTypeOK, PlanOrphan
<1>4. LocalTypeOK'
  BY DEF IInv, TypeOK, LocalTypeOK, PlanOrphan
<1>5. budget' \in [Budgets -> Nat] /\ BudgetInv'
  BY DirectAssumption DEF IInv, TypeOK, QueueTypeOK, BudgetInv, Budgets, Editions,
        PlanOrphan
<1>6. LocalsInv'
  BY DEF IInv, TypeOK, LocalsInv, LocalInv, PlanOrphan
<1>7. KnownInv'
  BY DEF IInv, TypeOK, KnownInv, PlanOrphan
<1>8. NoOrphanWithoutCrash'
  BY DEF IInv, TypeOK, NoOrphanWithoutCrash, PlanOrphan
<1>9. stopped' \in BOOLEAN
  BY Zenon DEF IInv, TypeOK, PlanOrphan
<1>10. Untroubled' => TokenInv'
  BY DEF IInv, TypeOK, QueueTypeOK, BudgetInv, Budgets, Editions, Untroubled, PlanOrphan
<1> QED
  BY <1>1, <1>2, <1>3, <1>4, <1>5, <1>6, <1>7, <1>8, <1>9, <1>10 DEF IInv, TypeOK

LEMMA ApplyOrphanInv ==
    ASSUME IInv, ApplyOrphan
    PROVE  IInv'
<1>0. grant \in Grant
  BY DEF IInv, TypeOK, StoreTypeOK, KnownInv, ApplyOrphan
<1>a. grant' \in Grant /\ grant'.old = grant.old /\ grant'.replacement = grant.replacement
  <2>1. CASE grant' = [grant EXCEPT !.reserved = FALSE]
    BY <1>0, <2>1 DEF Grant
  <2>2. CASE grant' = grant
    BY <1>0, <2>2 DEF Grant
  <2> QED
    BY <2>1, <2>2 DEF ApplyOrphan
<1>1. QueueTypeOK'
  BY DEF IInv, TypeOK, QueueTypeOK, ApplyOrphan
<1>2. StoreTypeOK'
  BY <1>0, <1>a DEF IInv, TypeOK, StoreTypeOK, ApplyOrphan
<1>3. ServerTypeOK'
  BY DEF IInv, TypeOK, ServerTypeOK, ApplyOrphan
<1>4. LocalTypeOK'
  BY DEF IInv, TypeOK, LocalTypeOK, ApplyOrphan
<1>5. budget' \in [Budgets -> Nat] /\ BudgetInv'
  BY DEF IInv, TypeOK, BudgetInv, ApplyOrphan
<1>6. LocalsInv'
  BY <1>0, <1>a, NoneIsNoRow DEF IInv, TypeOK, LocalsInv, LocalInv, ApplyOrphan
<1>7. KnownInv'
  BY <1>0, <1>a DEF IInv, TypeOK, KnownInv, ApplyOrphan
<1>8. NoOrphanWithoutCrash'
  BY DEF IInv, TypeOK, NoOrphanWithoutCrash, ApplyOrphan
<1>9. stopped' \in BOOLEAN
  BY Zenon DEF IInv, TypeOK, ApplyOrphan
<1>10. Untroubled' => TokenInv'
  BY DEF IInv, TypeOK, Untroubled, TokenInv, ApplyOrphan
<1> QED
  BY <1>1, <1>2, <1>3, <1>4, <1>5, <1>6, <1>7, <1>8, <1>9, <1>10 DEF IInv, TypeOK

-----------------------------------------------------------------------------
(* The theorems.                                                             *)

\* A step that changes nothing preserves everything.
LEMMA StutterInv ==
    ASSUME IInv, UNCHANGED vars
    PROVE  IInv'
<1>1. TypeOK'
  BY DEF IInv, TypeOK, QueueTypeOK, StoreTypeOK, ServerTypeOK, LocalTypeOK, vars
<1>2. BudgetInv' /\ LocalsInv'
  BY DEF IInv, BudgetInv, LocalsInv, LocalInv, vars
<1>3. KnownInv'
  BY DEF IInv, KnownInv, vars
<1>4. NoOrphanWithoutCrash'
  BY DEF IInv, NoOrphanWithoutCrash, vars
<1>5. Untroubled' => TokenInv'
  BY DEF IInv, Untroubled, TokenInv, Replacement, Reserved, vars
<1> QED
  BY <1>1, <1>2, <1>3, <1>4, <1>5 DEF IInv

\* The strengthened invariant is inductive.
LEMMA NextInv ==
    ASSUME IInv, [Next]_vars
    PROVE  IInv'
<1>1. CASE \E e \in Executors : Step(e)
  BY <1>1, DispatchInv, ReadInv, AdoptInv, ResumeInv, ReserveInv, CreateInv, ReleaseInv,
        PersistIdInv, SaveDraftInv, StartInv, FetchInv, ObserveInv, JudgeInv, MarkInv,
        KickInv, SaveSuccessInv, SaveFailureInv, ExceptInv, RecoverMissingInv,
        SaveStartFailedInv, ReportInv, RecordInv, InitializeFailsInv, ApplyInv DEF Step
<1>2. CASE \E e \in Executors : Crash(e)
  BY <1>2, CrashInv
<1>3. CASE \E s \in Sessions : Progress(s) \/ Forget(s)
  BY <1>3, ProgressInv, ForgetInv
<1>4. CASE ClaimRecovered \/ BackoffEnds
  BY <1>4, ClaimRecoveredInv, BackoffEndsInv
<1>5. CASE Operate
  BY <1>5, ResolveBlockedInv, RepairRoutesInv, PlanZombieInv, ApplyZombieInv,
        PlanOrphanInv, ApplyOrphanInv DEF Operate
<1>6. CASE UNCHANGED vars
  BY <1>6, StutterInv
<1> QED
  BY <1>1, <1>2, <1>3, <1>4, <1>5, <1>6 DEF Next

LEMMA Inductive == Spec => []IInv
<1>1. Init => IInv
  BY InitInv
<1>2. IInv /\ [Next]_vars => IInv'
  BY NextInv
<1> QED
  BY <1>1, <1>2, PTL DEF Spec

\* Every reachable state of the executors, of the rows they share, of the server and
\* of the item is well typed: no step of direct_mcp_executor.py or of a repair uses a
\* checkpoint, a grant or a session id that is not there.
THEOREM TypeCorrect == Spec => []TypeOK
<1>1. IInv => TypeOK
  BY DEF IInv
<1> QED
  BY <1>1, Inductive, PTL

\* _create_or_resume_session: however many executors race for the replacement, however
\* answers are lost and the operator intervenes, a reservation without a session id has
\* an executor that will fill or release it, unless an executor was killed.
THEOREM ReservationsHaveOwners == Spec => []NoOrphanWithoutCrash
<1>1. IInv => NoOrphanWithoutCrash
  BY DEF IInv
<1> QED
  BY <1>1, Inductive, PTL

\* Nobody ever names a session the server has not created, whatever is lost, forgotten
\* or repaired.
THEOREM SessionsExist == Spec => []KnownInv
<1>1. IInv => KnownInv
  BY DEF IInv
<1> QED
  BY <1>1, Inductive, PTL

\* _create_or_resume_session and _recover_missing_session_checkpoint: any number of
\* executors that find the item's session missing create one replacement between them,
\* as long as no answer is lost, nobody is killed and the operator does not intervene.
THEOREM AtMostOneReplacement == Spec => []OneReplacement
<1>1. ASSUME IInv, Untroubled
      PROVE  Cardinality(Replacements) <= 1
  <2>1. CASE Replacements = {}
    BY <2>1, FS_EmptySet
  <2>2. CASE \E s \in Sessions : Replacements = {s}
    BY <2>2, FS_Singleton
  <2> QED
    BY <1>1, <2>1, <2>2 DEF IInv, TokenInv, Replacement, Replacements
<1>2. IInv => OneReplacement
  BY <1>1 DEF OneReplacement
<1> QED
  BY <1>2, Inductive, PTL

\* A row that is written is a row: only a deletion leaves none.
LEMMA WrittenRow ==
    ASSUME NEW s \in Sessions, NEW r \in Editions, NEW state \in {"draft", "observed", "success", "start_failed"},
           NEW metrics \in {"none", "full"}, chk \in Checkpoint \cup {None}, Upsert(s, r, state, metrics)
    PROVE  chk' # None
<1>1. CASE chk = None
  <2>1. [session |-> s, request |-> r, attempted |-> FALSE, state |-> state, metrics |-> metrics]
          \in Checkpoint
    BY DEF Checkpoint
  <2> QED
    BY <1>1, <2>1, NoneIsNoRow DEF Upsert
<1>2. CASE chk # None
  <2>1. [chk EXCEPT !.state = state, !.metrics = metrics] \in Checkpoint
    BY <1>2 DEF Checkpoint
  <2> QED
    BY <1>2, <2>1, NoneIsNoRow DEF Upsert
<1> QED
  BY <1>1, <1>2

\* _recover_missing_session_checkpoint, repair_work_item_data_routes and the operator's
\* zombie repair are all that delete a checkpoint; the first two look for a run in the
\* transaction that deletes it.
THEOREM RunsKeepCheckpoints == Spec => RunKeepsCheckpoint
<1>1. ASSUME IInv, [Next]_vars, chk # None, chk' = None, plan' = plan
      PROVE  runs = {}
  <2>1. ASSUME NEW e \in Executors, Step(e)
        PROVE  runs = {}
    <3>0. /\ chk \in Checkpoint /\ req[e] \in Editions
          /\ pc[e] \in Holding => sess[e] \in Sessions
          /\ pc[e] \in Reading => seen[e] \in Checkpoint
      BY <1>1, <2>1 DEF IInv, TypeOK, StoreTypeOK, LocalTypeOK, LocalsInv, LocalInv
    <3>1. CASE SaveDraft(e)
      BY <1>1, <3>0, <3>1, WrittenRow DEF SaveDraft, Holding
    <3>2. CASE Observe(e)
      BY <1>1, <3>0, <3>2, WrittenRow, CheckpointFields DEF Observe, Holding
    <3>3. CASE SaveSuccess(e) \/ SaveFailure(e)
      BY <1>1, <3>0, <3>3, WrittenRow DEF SaveSuccess, SaveFailure, Holding
    <3>4. CASE SaveStartFailed(e)
      BY <1>1, <3>0, <3>4, WrittenRow, CheckpointFields DEF SaveStartFailed, Reading
    <3>5. CASE Mark(e)
      <4>1. CASE chk' = chk
        BY <1>1, <4>1
      <4>2. CASE chk' = [chk EXCEPT !.attempted = TRUE]
        BY <1>1, <3>0, <4>2, NoneIsNoRow DEF Checkpoint
      <4> QED
        BY <3>5, <4>1, <4>2 DEF Mark
    <3>6. CASE RecoverMissing(e)
      BY <1>1, <3>6 DEF RecoverMissing
    <3>7. CASE chk' = chk
      BY <1>1, <3>7
    <3> QED
      BY <2>1, <3>1, <3>2, <3>3, <3>4, <3>5, <3>6, <3>7 DEF Step, Dispatch, Read, Adopt, Resume,
         Reserve, Create, Release, PersistId, Start, Fetch, Judge, Kick, Except, Report, Record,
         InitializeFails, Apply
  <2>2. CASE Operate
    BY <1>1, <2>2 DEF Operate, ResolveBlocked, RepairRoutes, PlanZombie, ApplyZombie, PlanOrphan,
       ApplyOrphan
  <2>3. CASE chk' = chk
    BY <1>1, <2>3
  <2> QED
    BY <1>1, <2>1, <2>2, <2>3 DEF Next, vars, Crash, Progress, Forget, ClaimRecovered, BackoffEnds
<1>2. IInv /\ [Next]_vars => [CheckpointDropped /\ plan' = plan => runs = {}]_vars
  BY <1>1 DEF CheckpointDropped
<1> QED
  BY <1>2, Inductive, PTL DEF Spec, RunKeepsCheckpoint

-----------------------------------------------------------------------------
(* Without a claim that timed out the executors take turns, which makes the    *)
(* evidence sound; without a killed executor either, an attempt that ends has   *)
(* checkpointed its session, which keeps every session with its request.       *)

Quiet  == budget["timeout"] = MaxTimeouts
Steady == Quiet /\ budget["crash"] = MaxCrashes

SpentInv == budget["timeout"] <= MaxTimeouts

\* One executor works at a time, and only on a running item.
Alone(e) == pc[e] # "idle" =>
               work = "running" /\ \A d \in Executors : pc[d] # "idle" => d = e

Ended(s) == jesse[s] \in {"finished", "partial"}

\* An executor at these steps has found no checkpoint and has written none; at these
\* the checkpoint is as it has read it; at these it is that of its session.
Unsaved  == {"resume", "reserve", "create", "replace", "release", "persist", "save",
             "saveResumed"}
Fresh    == {"adopt", "recover", "saveStartFailed"}
Attached == {"adopt", "saveDraft", "fetch", "fetchReplacement", "poll", "start", "observe",
             "judge", "mark", "kick", "saveSuccess", "saveFailure"}

Finishing(e) == pc[e] \in {"report", "record", "apply"} /\ obs[e] \in {"finished", "finished_empty"}

EvidenceAt(e) ==
    /\ pc[e] \in Unsaved => chk = None
    /\ pc[e] \in Fresh => seen[e] = chk
    /\ pc[e] \in Attached => chk # None /\ chk.session = sess[e]
    /\ pc[e] \in {"observe", "judge"} /\ obs[e] \in {"success", "partial"} => Ended(sess[e])
    /\ pc[e] = "saveSuccess" \/ Finishing(e) => Ended(sess[e])

RowIsReal == chk # None /\ chk.state = "success" => Ended(chk.session)
RunsAreReal == \A r \in runs : Ended(r.session)

QuietInv == Quiet => /\ \A e \in Executors : Alone(e) /\ EvidenceAt(e)
                     /\ RowIsReal /\ RunsAreReal

Asked(s, r) == origin[s].request = r

RequestAt(e) ==
    /\ pc[e] # "idle" => req[e] = request
    /\ pc[e] \in Holding \/ Finishing(e) => Asked(sess[e], req[e])

RowIsAsked == chk # None => chk.request = request /\ Asked(chk.session, request)
UsedGrantIsSaved ==
    grant # None /\ grant.replacement # None =>
        chk # None \/ \E e \in Executors : pc[e] = "save"
RunsAreAsked == \A r \in runs : Asked(r.session, r.request)

SteadyInv == Steady => /\ \A e \in Executors : RequestAt(e)
                       /\ RowIsAsked /\ UsedGrantIsSaved /\ RunsAreAsked

EvidenceInv == SpentInv /\ QuietInv /\ SteadyInv

\* The row after _save_checkpoint or _observe_session.
UpsertedRow(s, r, state) ==
    /\ chk' # None /\ chk'.state = state
    /\ chk = None => chk'.session = s /\ chk'.request = r
    /\ chk # None => chk'.session = chk.session /\ chk'.request = chk.request

LEMMA UpsertWrites ==
    ASSUME NEW s \in Sessions, NEW r \in Editions,
           NEW state \in {"draft", "observed", "success", "start_failed"},
           NEW metrics \in {"none", "full"}, chk \in Checkpoint \cup {None}, Upsert(s, r, state, metrics)
    PROVE  UpsertedRow(s, r, state)
<1>1. chk' # None
  BY WrittenRow
<1>2. CASE chk = None
  BY <1>1, <1>2 DEF Upsert, UpsertedRow
<1>3. CASE chk # None
  BY <1>1, <1>3 DEF Upsert, UpsertedRow, Checkpoint
<1> QED
  BY <1>2, <1>3

\* Only an ended session is shown as one.
LEMMA ShownEnded ==
    ASSUME NEW t \in ServerStates \ {"absent"}, Shown[t] \in {"success", "partial"}
    PROVE  t \in {"finished", "partial"}
  BY DEF ServerStates, Shown

-----------------------------------------------------------------------------
(* The evidence and request parts are kept: what an action changes is local to   *)
(* its executor, everyone else is idle.                                        *)

\* A bound that is full was full before.
LEMMA BudgetStep ==
    ASSUME IInv, SpentInv, UNCHANGED budget \/ \E b \in Budgets : Spend(b)
    PROVE  SpentInv' /\ (Quiet' => Quiet) /\ (Steady' => Steady)
  BY DirectAssumption DEF IInv, TypeOK, BudgetInv, SpentInv, Quiet, Steady, Budgets

\* An executor that has moved carries the invariant for everyone: the others are idle.
LEMMA TurnKeeps ==
    ASSUME NEW e \in Executors, IInv, EvidenceInv, pc[e] # "idle",
           \A x \in Executors \ {e} : pc'[x] = pc[x],
           pc'[e] # "idle" => work' = work,
           UNCHANGED budget \/ \E b \in Budgets : Spend(b),
           Quiet => EvidenceAt(e)' /\ RowIsReal' /\ RunsAreReal',
           Steady /\ Steady' => RequestAt(e)' /\ RowIsAsked' /\ UsedGrantIsSaved' /\ RunsAreAsked'
    PROVE  EvidenceInv'
<1>1. SpentInv' /\ (Quiet' => Quiet) /\ (Steady' => Steady)
  BY BudgetStep DEF EvidenceInv
<1>2. Quiet => \A x \in Executors \ {e} : pc'[x] = "idle"
  BY DEF EvidenceInv, QuietInv, Alone
<1>3. ASSUME NEW x \in Executors, pc'[x] = "idle"
      PROVE  Alone(x)' /\ EvidenceAt(x)' /\ RequestAt(x)'
  BY <1>3 DEF Alone, EvidenceAt, RequestAt, Unsaved, Fresh, Attached, Finishing, Holding
<1>4. Quiet => Alone(e)'
  BY <1>2 DEF EvidenceInv, QuietInv, Alone
<1>5. QuietInv'
  BY <1>1, <1>2, <1>3, <1>4 DEF QuietInv
<1>6. SteadyInv'
  BY <1>1, <1>2, <1>3 DEF SteadyInv, Steady
<1> QED
  BY <1>1, <1>5, <1>6 DEF EvidenceInv

\* One lemma per action, in the order of DirectSession: what it does at its own executor
\* and to the rows.
LEMMA ReadEvidence ==
    ASSUME NEW e \in Executors, IInv, EvidenceInv, Read(e)
    PROVE  EvidenceInv'
<1>1. Quiet => EvidenceAt(e)' /\ RowIsReal' /\ RunsAreReal'
  BY DEF IInv, TypeOK, LocalTypeOK, EvidenceInv, QuietInv, EvidenceAt, RowIsReal, RunsAreReal,
         Unsaved, Fresh, Attached, Finishing, Ended, Read
<1>2. Steady => RequestAt(e)' /\ RowIsAsked' /\ UsedGrantIsSaved' /\ RunsAreAsked'
  BY DEF IInv, TypeOK, LocalTypeOK, EvidenceInv, SteadyInv, RequestAt, RowIsAsked,
         UsedGrantIsSaved, RunsAreAsked, Asked, Holding, Finishing, Read
<1> QED
  BY <1>1, <1>2, TurnKeeps DEF IInv, TypeOK, LocalTypeOK, Read

LEMMA AdoptEvidence ==
    ASSUME NEW e \in Executors, IInv, EvidenceInv, Adopt(e)
    PROVE  EvidenceInv'
<1>1. Quiet => EvidenceAt(e)' /\ RowIsReal' /\ RunsAreReal'
  BY DEF IInv, TypeOK, LocalTypeOK, EvidenceInv, QuietInv, EvidenceAt, RowIsReal, RunsAreReal,
         Unsaved, Fresh, Attached, Finishing, Ended, Adopt
<1>2. Steady => RequestAt(e)' /\ RowIsAsked' /\ UsedGrantIsSaved' /\ RunsAreAsked'
  BY DEF IInv, TypeOK, LocalTypeOK, EvidenceInv, QuietInv, Steady, EvidenceAt, Attached,
         SteadyInv, RequestAt, RowIsAsked, UsedGrantIsSaved, RunsAreAsked, Asked, Holding,
         Finishing, Adopt
<1> QED
  BY <1>1, <1>2, TurnKeeps DEF IInv, TypeOK, LocalTypeOK, Adopt

LEMMA ResumeEvidence ==
    ASSUME NEW e \in Executors, IInv, EvidenceInv, Resume(e)
    PROVE  EvidenceInv'
<1>1. Quiet => EvidenceAt(e)' /\ RowIsReal' /\ RunsAreReal'
  BY DEF IInv, TypeOK, LocalTypeOK, EvidenceInv, QuietInv, EvidenceAt, RowIsReal, RunsAreReal,
         Unsaved, Fresh, Attached, Finishing, Ended, Resume
<1>2. Steady => RequestAt(e)' /\ RowIsAsked' /\ UsedGrantIsSaved' /\ RunsAreAsked'
  BY DEF IInv, TypeOK, LocalTypeOK, EvidenceInv, QuietInv, Alone, Steady, EvidenceAt, Unsaved,
         SteadyInv, RequestAt, RowIsAsked, UsedGrantIsSaved, RunsAreAsked, Asked, Holding,
         Finishing, Resume
<1> QED
  BY <1>1, <1>2, TurnKeeps DEF IInv, TypeOK, LocalTypeOK, Resume

LEMMA ReserveEvidence ==
    ASSUME NEW e \in Executors, IInv, EvidenceInv, Reserve(e)
    PROVE  EvidenceInv'
<1>0. grant \in Grant
  BY DEF IInv, TypeOK, StoreTypeOK, LocalsInv, LocalInv, Replacing, Reserve
<1>a. grant'.replacement = grant.replacement
  BY <1>0 DEF Grant, Reserve
<1>1. Quiet => EvidenceAt(e)' /\ RowIsReal' /\ RunsAreReal'
  BY DEF IInv, TypeOK, LocalTypeOK, EvidenceInv, QuietInv, EvidenceAt, RowIsReal, RunsAreReal,
         Unsaved, Fresh, Attached, Finishing, Ended, Reserve
<1>2. Steady => RequestAt(e)' /\ RowIsAsked' /\ UsedGrantIsSaved' /\ RunsAreAsked'
  BY <1>0, <1>a, NoneIsNoRow DEF IInv, TypeOK, LocalTypeOK, EvidenceInv, QuietInv, Alone,
         Steady, SteadyInv, RequestAt, RowIsAsked, UsedGrantIsSaved, RunsAreAsked, Asked,
         Holding, Finishing, Reserve
<1> QED
  BY <1>1, <1>2, TurnKeeps DEF IInv, TypeOK, LocalTypeOK, Budgets, Reserve

LEMMA CreateEvidence ==
    ASSUME NEW e \in Executors, IInv, EvidenceInv, Create(e)
    PROVE  EvidenceInv'
<1>0. /\ chk \in Checkpoint \cup {None} /\ req[e] \in Editions
      /\ jesse \in [Sessions -> ServerStates] /\ runs \subseteq [session : Sessions, request : Editions, metrics : {"none", "full"}]
  BY DEF IInv, TypeOK, QueueTypeOK, StoreTypeOK, ServerTypeOK, LocalTypeOK
<1>a. \A s \in Sessions : jesse[s] # "absent" =>
          jesse'[s] = jesse[s] /\ origin'[s] = origin[s]
  BY DEF IInv, TypeOK, ServerTypeOK, Create
<1>b. \A r \in runs : r.session \in Sessions
  BY <1>0
<1>c. UNCHANGED <<chk, runs, request, grant, req>>
  BY DEF Create
<1>d. pc[e] \in {"create", "replace"} /\ pc'[e] \in {"save", "persist", "release", "except"}
  BY DEF IInv, TypeOK, LocalTypeOK, Create
<1>e. pc'[e] \in {"save", "persist"} => sess'[e] \in Sessions /\ origin'[sess'[e]].request = req[e]
  BY DEF IInv, TypeOK, LocalTypeOK, ServerTypeOK, Create
<1>1. Quiet => EvidenceAt(e)' /\ RowIsReal' /\ RunsAreReal'
  <2> SUFFICES ASSUME Quiet PROVE EvidenceAt(e)' /\ RowIsReal' /\ RunsAreReal'
    OBVIOUS
  <2>1. chk = None /\ RunsAreReal
    BY <1>d DEF EvidenceInv, QuietInv, EvidenceAt, Unsaved
  <2>2. EvidenceAt(e)'
    BY <1>c, <1>d, <2>1 DEF EvidenceAt, Unsaved, Fresh, Attached, Finishing
  <2>3. RunsAreReal'
    BY <1>a, <1>b, <1>c, <2>1 DEF RunsAreReal, Ended
  <2> QED
    BY <1>c, <2>1, <2>2, <2>3 DEF RowIsReal
<1>2. Steady => RequestAt(e)' /\ RowIsAsked' /\ UsedGrantIsSaved' /\ RunsAreAsked'
  <2> SUFFICES ASSUME Steady
              PROVE  RequestAt(e)' /\ RowIsAsked' /\ UsedGrantIsSaved' /\ RunsAreAsked'
    OBVIOUS
  <2>1. chk = None /\ RunsAreReal /\ RunsAreAsked /\ req[e] = request /\ UsedGrantIsSaved
    BY <1>d DEF EvidenceInv, QuietInv, Steady, SteadyInv, EvidenceAt, RequestAt, Unsaved
  <2>2. RequestAt(e)'
    BY <1>c, <1>d, <1>e, <2>1 DEF RequestAt, Holding, Finishing, Asked
  <2>3. UsedGrantIsSaved'
    <3>1. \A x \in Executors : pc[x] # "save"
      BY <1>d DEF EvidenceInv, QuietInv, Steady, Alone
    <3> QED
      BY <1>c, <2>1, <3>1 DEF UsedGrantIsSaved
  <2>4. RunsAreAsked'
    BY <1>a, <1>b, <1>c, <2>1 DEF RunsAreAsked, RunsAreReal, Ended, Asked
  <2> QED
    BY <1>c, <2>1, <2>2, <2>3, <2>4 DEF RowIsAsked
<1> QED
  BY <1>1, <1>2, TurnKeeps DEF IInv, TypeOK, LocalTypeOK, Budgets, Create

LEMMA ReleaseEvidence ==
    ASSUME NEW e \in Executors, IInv, EvidenceInv, Release(e)
    PROVE  EvidenceInv'
<1>1. Quiet => EvidenceAt(e)' /\ RowIsReal' /\ RunsAreReal'
  BY DEF IInv, TypeOK, LocalTypeOK, EvidenceInv, QuietInv, EvidenceAt, RowIsReal, RunsAreReal,
         Unsaved, Fresh, Attached, Finishing, Ended, Release
<1>2. Steady => RequestAt(e)' /\ RowIsAsked' /\ UsedGrantIsSaved' /\ RunsAreAsked'
  BY DEF IInv, TypeOK, LocalTypeOK, EvidenceInv, QuietInv, Alone, Steady, EvidenceAt, Unsaved,
         Attached, SteadyInv, RequestAt, RowIsAsked, UsedGrantIsSaved, RunsAreAsked, Asked,
         Holding, Finishing, Release
<1> QED
  BY <1>1, <1>2, TurnKeeps DEF IInv, TypeOK, LocalTypeOK, Budgets, Release

LEMMA PersistIdEvidence ==
    ASSUME NEW e \in Executors, IInv, EvidenceInv, PersistId(e)
    PROVE  EvidenceInv'
<1>1. Quiet => EvidenceAt(e)' /\ RowIsReal' /\ RunsAreReal'
  BY DEF IInv, TypeOK, LocalTypeOK, EvidenceInv, QuietInv, EvidenceAt, RowIsReal, RunsAreReal,
         Unsaved, Fresh, Attached, Finishing, Ended, PersistId
<1>2. Steady => RequestAt(e)' /\ RowIsAsked' /\ UsedGrantIsSaved' /\ RunsAreAsked'
  BY DEF IInv, TypeOK, LocalTypeOK, EvidenceInv, QuietInv, Alone, Steady, EvidenceAt, Unsaved,
         Attached, SteadyInv, RequestAt, RowIsAsked, UsedGrantIsSaved, RunsAreAsked, Asked,
         Holding, Finishing, PersistId
<1> QED
  BY <1>1, <1>2, TurnKeeps DEF IInv, TypeOK, LocalTypeOK, Budgets, PersistId

LEMMA SaveDraftEvidence ==
    ASSUME NEW e \in Executors, IInv, EvidenceInv, SaveDraft(e)
    PROVE  EvidenceInv'
<1>0. /\ chk \in Checkpoint \cup {None} /\ sess[e] \in Sessions /\ req[e] \in Editions
  BY DEF IInv, TypeOK, LocalTypeOK, StoreTypeOK, LocalsInv, LocalInv, Holding, SaveDraft
<1>a. UpsertedRow(sess[e], req[e], "draft")
  BY <1>0, UpsertWrites, CheckpointFields DEF SaveDraft
<1>1. Quiet => EvidenceAt(e)' /\ RowIsReal' /\ RunsAreReal'
  BY <1>0, <1>a DEF IInv, TypeOK, LocalTypeOK, EvidenceInv, QuietInv, EvidenceAt, RowIsReal,
         RunsAreReal, Unsaved, Fresh, Attached, Finishing, Ended, UpsertedRow, SaveDraft
<1>2. Steady => RequestAt(e)' /\ RowIsAsked' /\ UsedGrantIsSaved' /\ RunsAreAsked'
  BY <1>0, <1>a DEF IInv, TypeOK, LocalTypeOK, EvidenceInv, QuietInv, Alone, Steady, EvidenceAt,
         Unsaved, Attached, SteadyInv, RequestAt, RowIsAsked, UsedGrantIsSaved, RunsAreAsked,
         Asked, Holding, Finishing, UpsertedRow, SaveDraft
<1> QED
  BY <1>1, <1>2, TurnKeeps DEF IInv, TypeOK, LocalTypeOK, Budgets, SaveDraft

LEMMA StartEvidence ==
    ASSUME NEW e \in Executors, IInv, EvidenceInv, Start(e)
    PROVE  EvidenceInv'
<1>0. /\ chk \in Checkpoint \cup {None} /\ sess[e] \in Sessions
      /\ \A r \in runs : r.session \in Sessions
  BY DEF IInv, TypeOK, QueueTypeOK, LocalTypeOK, StoreTypeOK, LocalsInv, LocalInv, Holding, Start
<1>a. \A s \in Sessions : Ended(s) => Ended(s)'
  BY DEF IInv, TypeOK, ServerTypeOK, Ended, Start
<1>b. pc'[e] = "observe" /\ obs'[e] \in {"success", "partial"} => Ended(sess[e])'
  <2>1. jesse[sess[e]] # "absent" /\ jesse' \in [Sessions -> ServerStates]
    BY <1>0, NoneIsNoSession, StartInv DEF IInv, TypeOK, ServerTypeOK, KnownInv
  <2>2. jesse'[sess[e]] \in ServerStates \ {"absent"}
    BY <1>0, <2>1 DEF IInv, TypeOK, ServerTypeOK, Start
  <2>3. (pc'[e] = "observe" => obs'[e] = Shown[jesse'[sess[e]]]) /\ sess' = sess
    BY <1>0 DEF IInv, TypeOK, LocalTypeOK, Start
  <2> QED
    BY <2>2, <2>3, ShownEnded DEF Ended
<1>c. pc'[e] \in {"observe", "except"} /\ UNCHANGED <<chk, runs, seen, sess>>
  BY DEF IInv, TypeOK, LocalTypeOK, Start
<1>1. Quiet => EvidenceAt(e)' /\ RowIsReal' /\ RunsAreReal'
  <2> SUFFICES ASSUME Quiet PROVE EvidenceAt(e)' /\ RowIsReal' /\ RunsAreReal'
    OBVIOUS
  <2>1. chk # None /\ chk.session = sess[e] /\ RowIsReal /\ RunsAreReal
    BY DEF EvidenceInv, QuietInv, EvidenceAt, Attached, Start
  <2>2. EvidenceAt(e)'
    BY <1>b, <1>c, <2>1 DEF EvidenceAt, Unsaved, Fresh, Attached, Finishing
  <2> QED
    BY <1>0, <1>a, <1>c, <2>1, <2>2, CheckpointFields DEF RowIsReal, RunsAreReal
<1>2. Steady => RequestAt(e)' /\ RowIsAsked' /\ UsedGrantIsSaved' /\ RunsAreAsked'
  BY DEF IInv, TypeOK, LocalTypeOK, EvidenceInv, QuietInv, Alone, Steady, EvidenceAt, Unsaved,
         Attached, SteadyInv, RequestAt, RowIsAsked, UsedGrantIsSaved, RunsAreAsked, Asked,
         Holding, Finishing, Start
<1> QED
  BY <1>1, <1>2, TurnKeeps DEF IInv, TypeOK, LocalTypeOK, Budgets, Start

LEMMA FetchEvidence ==
    ASSUME NEW e \in Executors, IInv, EvidenceInv, Fetch(e)
    PROVE  EvidenceInv'
<1>0. sess[e] \in Sessions
  BY DEF IInv, TypeOK, LocalTypeOK, LocalsInv, LocalInv, Holding, Fetch
<1>a. pc'[e] = "observe" /\ obs'[e] \in {"success", "partial"} => Ended(sess[e])
  <2>1. jesse[sess[e]] \in ServerStates \ {"absent"}
    BY <1>0, NoneIsNoSession DEF IInv, TypeOK, ServerTypeOK, KnownInv
  <2>2. pc'[e] = "observe" => obs'[e] \in {"malformed", Shown[jesse[sess[e]]]}
    BY DEF IInv, TypeOK, LocalTypeOK, Fetch
  <2> QED
    BY <2>1, <2>2, ShownEnded DEF Ended
<1>b. pc'[e] \in {"observe", "except", "report", "saveDraft", "start"} /\ UNCHANGED <<chk, runs, seen, sess, jesse>>
  BY DEF IInv, TypeOK, LocalTypeOK, Fetch
<1>c. pc'[e] = "report" => obs'[e] = "analysis"
  BY DEF IInv, TypeOK, LocalTypeOK, Fetch
<1>1. Quiet => EvidenceAt(e)' /\ RowIsReal' /\ RunsAreReal'
  <2> SUFFICES ASSUME Quiet PROVE EvidenceAt(e)' /\ RowIsReal' /\ RunsAreReal'
    OBVIOUS
  <2>1. chk # None /\ chk.session = sess[e] /\ RowIsReal /\ RunsAreReal
    BY DEF EvidenceInv, QuietInv, EvidenceAt, Attached, Fetch
  <2>2. EvidenceAt(e)'
    BY <1>a, <1>b, <1>c, <2>1 DEF EvidenceAt, Unsaved, Fresh, Attached, Finishing, Ended
  <2> QED
    BY <1>b, <2>1, <2>2 DEF RowIsReal, RunsAreReal, Ended
<1>2. Steady => RequestAt(e)' /\ RowIsAsked' /\ UsedGrantIsSaved' /\ RunsAreAsked'
  BY DEF IInv, TypeOK, LocalTypeOK, EvidenceInv, QuietInv, Alone, Steady, EvidenceAt, Unsaved,
         Attached, SteadyInv, RequestAt, RowIsAsked, UsedGrantIsSaved, RunsAreAsked, Asked,
         Holding, Finishing, Fetch
<1> QED
  BY <1>1, <1>2, TurnKeeps DEF IInv, TypeOK, LocalTypeOK, Budgets, Fetch

LEMMA ObserveEvidence ==
    ASSUME NEW e \in Executors, IInv, EvidenceInv, Observe(e)
    PROVE  EvidenceInv'
<1>0. /\ chk \in Checkpoint \cup {None} /\ sess[e] \in Sessions /\ req[e] \in Editions
  BY DEF IInv, TypeOK, LocalTypeOK, StoreTypeOK, LocalsInv, LocalInv, Holding, Observe
<1>a. UpsertedRow(sess[e], req[e], IF obs[e] \in {"success", "partial"} THEN "success" ELSE "observed")
  BY <1>0, UpsertWrites, CheckpointFields DEF Observe
<1>1. Quiet => EvidenceAt(e)' /\ RowIsReal' /\ RunsAreReal'
  BY <1>0, <1>a DEF IInv, TypeOK, LocalTypeOK, EvidenceInv, QuietInv, EvidenceAt, RowIsReal,
         RunsAreReal, Unsaved, Fresh, Attached, Finishing, Ended, UpsertedRow, Observe
<1>2. Steady => RequestAt(e)' /\ RowIsAsked' /\ UsedGrantIsSaved' /\ RunsAreAsked'
  BY <1>0, <1>a DEF IInv, TypeOK, LocalTypeOK, EvidenceInv, QuietInv, Alone, Steady, EvidenceAt,
         Unsaved, Attached, SteadyInv, RequestAt, RowIsAsked, UsedGrantIsSaved, RunsAreAsked,
         Asked, Holding, Finishing, UpsertedRow, Observe
<1> QED
  BY <1>1, <1>2, TurnKeeps DEF IInv, TypeOK, LocalTypeOK, Budgets, Observe

LEMMA JudgeEvidence ==
    ASSUME NEW e \in Executors, IInv, EvidenceInv, Judge(e)
    PROVE  EvidenceInv'
<1>1. Quiet => EvidenceAt(e)' /\ RowIsReal' /\ RunsAreReal'
  BY DEF IInv, TypeOK, LocalTypeOK, EvidenceInv, QuietInv, EvidenceAt, RowIsReal, RunsAreReal,
         Unsaved, Fresh, Attached, Finishing, Ended, Judge
<1>2. Steady => RequestAt(e)' /\ RowIsAsked' /\ UsedGrantIsSaved' /\ RunsAreAsked'
  BY DEF IInv, TypeOK, LocalTypeOK, EvidenceInv, QuietInv, Alone, Steady, EvidenceAt, Unsaved,
         Attached, SteadyInv, RequestAt, RowIsAsked, UsedGrantIsSaved, RunsAreAsked, Asked,
         Holding, Finishing, Judge
<1> QED
  BY <1>1, <1>2, TurnKeeps DEF IInv, TypeOK, LocalTypeOK, Budgets, Judge

LEMMA MarkEvidence ==
    ASSUME NEW e \in Executors, IInv, EvidenceInv, Mark(e)
    PROVE  EvidenceInv'
<1>0. chk \in Checkpoint \cup {None}
  BY DEF IInv, TypeOK, StoreTypeOK
<1>a. chk # None => /\ chk' # None /\ chk'.session = chk.session
                    /\ chk'.request = chk.request /\ chk'.state = chk.state
  <2>1. CASE chk # None /\ chk' = [chk EXCEPT !.attempted = TRUE]
    <3>1. chk' \in Checkpoint
      BY <1>0, <2>1 DEF Checkpoint
    <3> QED
      BY <1>0, <2>1, <3>1, NoneIsNoRow DEF Checkpoint
  <2>2. CASE chk' = chk
    BY <2>2
  <2> QED
    BY <2>1, <2>2 DEF Mark
<1>b. pc'[e] \in {"kick", "report", "except"} /\ (pc'[e] = "report" => obs'[e] = "retry")
  BY DEF IInv, TypeOK, LocalTypeOK, Mark
<1>c. UNCHANGED <<runs, jesse, origin, seen, sess, req, request, grant>>
  BY DEF Mark
<1>1. Quiet => EvidenceAt(e)' /\ RowIsReal' /\ RunsAreReal'
  BY <1>a, <1>b, <1>c DEF EvidenceInv, QuietInv, EvidenceAt, RowIsReal,
         RunsAreReal, Unsaved, Fresh, Attached, Finishing, Ended, Mark
<1>2. Steady => RequestAt(e)' /\ RowIsAsked' /\ UsedGrantIsSaved' /\ RunsAreAsked'
  BY <1>a, <1>b, <1>c DEF EvidenceInv, QuietInv, Alone, Steady, EvidenceAt,
         Unsaved, Attached, SteadyInv, RequestAt, RowIsAsked, UsedGrantIsSaved, RunsAreAsked,
         Asked, Holding, Finishing, Mark
<1> QED
  BY <1>1, <1>2, TurnKeeps DEF IInv, TypeOK, LocalTypeOK, Budgets, Mark

LEMMA KickEvidence ==
    ASSUME NEW e \in Executors, IInv, EvidenceInv, Kick(e)
    PROVE  EvidenceInv'
<1>0. /\ chk \in Checkpoint \cup {None} /\ sess[e] \in Sessions
      /\ \A r \in runs : r.session \in Sessions
  BY DEF IInv, TypeOK, QueueTypeOK, LocalTypeOK, StoreTypeOK, LocalsInv, LocalInv, Holding, Kick
<1>a. \A s \in Sessions : Ended(s) => Ended(s)'
  BY DEF IInv, TypeOK, ServerTypeOK, Ended, Kick
<1>b. pc'[e] \in {"report", "except"} /\ (pc'[e] = "report" => obs'[e] = "retry")
  BY DEF IInv, TypeOK, LocalTypeOK, Kick
<1>c. UNCHANGED <<chk, runs, seen, sess>>
  BY DEF Kick
<1>1. Quiet => EvidenceAt(e)' /\ RowIsReal' /\ RunsAreReal'
  <2> SUFFICES ASSUME Quiet PROVE EvidenceAt(e)' /\ RowIsReal' /\ RunsAreReal'
    OBVIOUS
  <2>1. RowIsReal /\ RunsAreReal
    BY DEF EvidenceInv, QuietInv
  <2>2. EvidenceAt(e)'
    BY <1>b DEF EvidenceAt, Unsaved, Fresh, Attached, Finishing
  <2> QED
    BY <1>0, <1>a, <1>c, <2>1, <2>2, CheckpointFields DEF RowIsReal, RunsAreReal
<1>2. Steady => RequestAt(e)' /\ RowIsAsked' /\ UsedGrantIsSaved' /\ RunsAreAsked'
  BY DEF IInv, TypeOK, LocalTypeOK, EvidenceInv, QuietInv, Alone, Steady, EvidenceAt, Unsaved,
         Attached, SteadyInv, RequestAt, RowIsAsked, UsedGrantIsSaved, RunsAreAsked, Asked,
         Holding, Finishing, Kick
<1> QED
  BY <1>1, <1>2, TurnKeeps DEF IInv, TypeOK, LocalTypeOK, Budgets, Kick

LEMMA SaveSuccessEvidence ==
    ASSUME NEW e \in Executors, IInv, EvidenceInv, SaveSuccess(e)
    PROVE  EvidenceInv'
<1>0. /\ chk \in Checkpoint \cup {None} /\ sess[e] \in Sessions /\ req[e] \in Editions
  BY DEF IInv, TypeOK, LocalTypeOK, StoreTypeOK, LocalsInv, LocalInv, Holding, SaveSuccess
<1>a. UpsertedRow(sess[e], req[e], "success")
  BY <1>0, UpsertWrites, CheckpointFields DEF SaveSuccess
<1>1. Quiet => EvidenceAt(e)' /\ RowIsReal' /\ RunsAreReal'
  BY <1>0, <1>a DEF IInv, TypeOK, LocalTypeOK, EvidenceInv, QuietInv, EvidenceAt, RowIsReal,
         RunsAreReal, Unsaved, Fresh, Attached, Finishing, Ended, UpsertedRow, SaveSuccess
<1>2. Steady => RequestAt(e)' /\ RowIsAsked' /\ UsedGrantIsSaved' /\ RunsAreAsked'
  BY <1>0, <1>a DEF IInv, TypeOK, LocalTypeOK, EvidenceInv, QuietInv, Alone, Steady, EvidenceAt,
         Unsaved, Attached, SteadyInv, RequestAt, RowIsAsked, UsedGrantIsSaved, RunsAreAsked,
         Asked, Holding, Finishing, UpsertedRow, SaveSuccess
<1> QED
  BY <1>1, <1>2, TurnKeeps DEF IInv, TypeOK, LocalTypeOK, Budgets, SaveSuccess

LEMMA SaveFailureEvidence ==
    ASSUME NEW e \in Executors, IInv, EvidenceInv, SaveFailure(e)
    PROVE  EvidenceInv'
<1>0. /\ chk \in Checkpoint \cup {None} /\ sess[e] \in Sessions /\ req[e] \in Editions
  BY DEF IInv, TypeOK, LocalTypeOK, StoreTypeOK, LocalsInv, LocalInv, Holding, SaveFailure
<1>a. UpsertedRow(sess[e], req[e], "observed")
  BY <1>0, UpsertWrites, CheckpointFields DEF SaveFailure
<1>1. Quiet => EvidenceAt(e)' /\ RowIsReal' /\ RunsAreReal'
  BY <1>0, <1>a DEF IInv, TypeOK, LocalTypeOK, EvidenceInv, QuietInv, EvidenceAt, RowIsReal,
         RunsAreReal, Unsaved, Fresh, Attached, Finishing, Ended, UpsertedRow, SaveFailure
<1>2. Steady => RequestAt(e)' /\ RowIsAsked' /\ UsedGrantIsSaved' /\ RunsAreAsked'
  BY <1>0, <1>a DEF IInv, TypeOK, LocalTypeOK, EvidenceInv, QuietInv, Alone, Steady, EvidenceAt,
         Unsaved, Attached, SteadyInv, RequestAt, RowIsAsked, UsedGrantIsSaved, RunsAreAsked,
         Asked, Holding, Finishing, UpsertedRow, SaveFailure
<1> QED
  BY <1>1, <1>2, TurnKeeps DEF IInv, TypeOK, LocalTypeOK, Budgets, SaveFailure

LEMMA ExceptEvidence ==
    ASSUME NEW e \in Executors, IInv, EvidenceInv, Except(e)
    PROVE  EvidenceInv'
<1>0. chk \in Checkpoint \cup {None}
  BY DEF IInv, TypeOK, StoreTypeOK
<1>a. /\ seen'[e] = chk
      /\ pc'[e] \in {"report", "recover", "saveStartFailed"}
      /\ pc'[e] = "report" => obs'[e] \notin {"finished", "finished_empty"}
  BY DEF IInv, TypeOK, LocalTypeOK, LocalsInv, LocalInv, Except
<1>b. UNCHANGED <<chk, runs, jesse, origin, req, request, grant>>
  BY DEF Except
<1>1. Quiet => EvidenceAt(e)' /\ RowIsReal' /\ RunsAreReal'
  BY <1>a, <1>b DEF EvidenceInv, QuietInv, EvidenceAt, RowIsReal,
         RunsAreReal, Unsaved, Fresh, Attached, Finishing, Ended, Except
<1>2. Steady => RequestAt(e)' /\ RowIsAsked' /\ UsedGrantIsSaved' /\ RunsAreAsked'
  BY <1>a, <1>b DEF EvidenceInv, QuietInv, Alone, Steady, EvidenceAt,
         Unsaved, Attached, SteadyInv, RequestAt, RowIsAsked, UsedGrantIsSaved, RunsAreAsked,
         Asked, Holding, Finishing, Except
<1> QED
  BY <1>1, <1>2, TurnKeeps DEF IInv, TypeOK, LocalTypeOK, Budgets, Except

LEMMA RecoverMissingEvidence ==
    ASSUME NEW e \in Executors, IInv, EvidenceInv, RecoverMissing(e)
    PROVE  EvidenceInv'
<1>1. Quiet => EvidenceAt(e)' /\ RowIsReal' /\ RunsAreReal'
  BY DEF IInv, TypeOK, LocalTypeOK, EvidenceInv, QuietInv, EvidenceAt, RowIsReal, RunsAreReal,
         Unsaved, Fresh, Attached, Finishing, Ended, RecoverMissing
<1>2. Steady => RequestAt(e)' /\ RowIsAsked' /\ UsedGrantIsSaved' /\ RunsAreAsked'
  BY DEF IInv, TypeOK, LocalTypeOK, EvidenceInv, QuietInv, Alone, Steady, EvidenceAt, Unsaved,
         Attached, SteadyInv, RequestAt, RowIsAsked, UsedGrantIsSaved, RunsAreAsked, Asked,
         Holding, Finishing, RecoverMissing
<1> QED
  BY <1>1, <1>2, TurnKeeps DEF IInv, TypeOK, LocalTypeOK, Budgets, RecoverMissing

LEMMA SaveStartFailedEvidence ==
    ASSUME NEW e \in Executors, IInv, EvidenceInv, SaveStartFailed(e)
    PROVE  EvidenceInv'
<1>0. chk \in Checkpoint \cup {None} /\ seen[e] \in Checkpoint
  BY DEF IInv, TypeOK, LocalTypeOK, StoreTypeOK, LocalsInv, LocalInv, Reading, SaveStartFailed
<1>a. UpsertedRow(seen[e].session, seen[e].request, "start_failed")
  BY <1>0, UpsertWrites, CheckpointFields DEF SaveStartFailed
<1>1. Quiet => EvidenceAt(e)' /\ RowIsReal' /\ RunsAreReal'
  BY <1>0, <1>a DEF IInv, TypeOK, LocalTypeOK, EvidenceInv, QuietInv, EvidenceAt, RowIsReal,
         RunsAreReal, Unsaved, Fresh, Attached, Finishing, Ended, UpsertedRow, SaveStartFailed
<1>2. Steady => RequestAt(e)' /\ RowIsAsked' /\ UsedGrantIsSaved' /\ RunsAreAsked'
  BY <1>0, <1>a, NoneIsNoRow DEF IInv, TypeOK, LocalTypeOK, EvidenceInv, QuietInv, Alone, Steady, EvidenceAt,
         Unsaved, Fresh, Attached, SteadyInv, RequestAt, RowIsAsked, UsedGrantIsSaved, RunsAreAsked,
         Asked, Holding, Finishing, UpsertedRow, SaveStartFailed
<1> QED
  BY <1>1, <1>2, TurnKeeps DEF IInv, TypeOK, LocalTypeOK, Budgets, SaveStartFailed

LEMMA InitializeFailsEvidence ==
    ASSUME NEW e \in Executors, IInv, EvidenceInv, InitializeFails(e)
    PROVE  EvidenceInv'
<1>1. Quiet => EvidenceAt(e)' /\ RowIsReal' /\ RunsAreReal'
  BY DEF IInv, TypeOK, LocalTypeOK, EvidenceInv, QuietInv, EvidenceAt, RowIsReal, RunsAreReal,
         Unsaved, Fresh, Attached, Finishing, Ended, InitializeFails
<1>2. Steady => RequestAt(e)' /\ RowIsAsked' /\ UsedGrantIsSaved' /\ RunsAreAsked'
  BY DEF IInv, TypeOK, LocalTypeOK, EvidenceInv, QuietInv, Alone, Steady, EvidenceAt, Unsaved,
         Attached, SteadyInv, RequestAt, RowIsAsked, UsedGrantIsSaved, RunsAreAsked, Asked,
         Holding, Finishing, InitializeFails
<1> QED
  BY <1>1, <1>2, TurnKeeps DEF IInv, TypeOK, LocalTypeOK, Budgets, InitializeFails

LEMMA ReportEvidence ==
    ASSUME NEW e \in Executors, IInv, EvidenceInv, Report(e)
    PROVE  EvidenceInv'
<1>1. Quiet => EvidenceAt(e)' /\ RowIsReal' /\ RunsAreReal'
  BY DEF IInv, TypeOK, LocalTypeOK, EvidenceInv, QuietInv, EvidenceAt, RowIsReal, RunsAreReal,
         Unsaved, Fresh, Attached, Finishing, Ended, Report
<1>2. Steady => RequestAt(e)' /\ RowIsAsked' /\ UsedGrantIsSaved' /\ RunsAreAsked'
  BY DEF IInv, TypeOK, LocalTypeOK, EvidenceInv, QuietInv, Alone, Steady, EvidenceAt, Unsaved,
         Attached, SteadyInv, RequestAt, RowIsAsked, UsedGrantIsSaved, RunsAreAsked, Asked,
         Holding, Finishing, Report
<1> QED
  BY <1>1, <1>2, TurnKeeps DEF IInv, TypeOK, LocalTypeOK, Budgets, Report

LEMMA RecordEvidence ==
    ASSUME NEW e \in Executors, IInv, EvidenceInv, Record(e)
    PROVE  EvidenceInv'
<1>1. Quiet => EvidenceAt(e)' /\ RowIsReal' /\ RunsAreReal'
  BY DEF IInv, TypeOK, LocalTypeOK, EvidenceInv, QuietInv, EvidenceAt, RowIsReal, RunsAreReal,
         Unsaved, Fresh, Attached, Finishing, Ended, Record
<1>2. Steady => RequestAt(e)' /\ RowIsAsked' /\ UsedGrantIsSaved' /\ RunsAreAsked'
  BY DEF IInv, TypeOK, LocalTypeOK, EvidenceInv, QuietInv, Alone, Steady, EvidenceAt, Unsaved,
         Attached, SteadyInv, RequestAt, RowIsAsked, UsedGrantIsSaved, RunsAreAsked, Asked,
         Holding, Finishing, Record
<1> QED
  BY <1>1, <1>2, TurnKeeps DEF IInv, TypeOK, LocalTypeOK, Budgets, Record

LEMMA ApplyEvidence ==
    ASSUME NEW e \in Executors, IInv, EvidenceInv, Apply(e)
    PROVE  EvidenceInv'
<1>1. Quiet => EvidenceAt(e)' /\ RowIsReal' /\ RunsAreReal'
  BY DEF IInv, TypeOK, LocalTypeOK, EvidenceInv, QuietInv, EvidenceAt, RowIsReal, RunsAreReal,
         Unsaved, Fresh, Attached, Finishing, Ended, Apply
<1>2. Steady => RequestAt(e)' /\ RowIsAsked' /\ UsedGrantIsSaved' /\ RunsAreAsked'
  BY DEF IInv, TypeOK, LocalTypeOK, EvidenceInv, QuietInv, Alone, Steady, EvidenceAt, Unsaved,
         Attached, SteadyInv, RequestAt, RowIsAsked, UsedGrantIsSaved, RunsAreAsked, Asked,
         Holding, Finishing, Apply
<1> QED
  BY <1>1, <1>2, TurnKeeps DEF IInv, TypeOK, LocalTypeOK, Budgets, Apply

LEMMA CrashEvidence ==
    ASSUME NEW e \in Executors, IInv, EvidenceInv, Crash(e)
    PROVE  EvidenceInv'
<1>1. Quiet => EvidenceAt(e)' /\ RowIsReal' /\ RunsAreReal'
  BY DEF IInv, TypeOK, LocalTypeOK, EvidenceInv, QuietInv, EvidenceAt, RowIsReal, RunsAreReal,
         Unsaved, Fresh, Attached, Finishing, Ended, Crash
<1>2. Steady /\ Steady' => RequestAt(e)' /\ RowIsAsked' /\ UsedGrantIsSaved' /\ RunsAreAsked'
  BY DirectAssumption DEF IInv, TypeOK, BudgetInv, Budgets, Steady, Crash
<1> QED
  BY <1>1, <1>2, TurnKeeps DEF IInv, TypeOK, LocalTypeOK, Budgets, Crash

\* Only a running item has an executor at work.
LEMMA OthersRest ==
    ASSUME IInv, EvidenceInv, Quiet, work # "running"
    PROVE  \A e \in Executors : pc[e] = "idle"
  BY DEF EvidenceInv, QuietInv, Alone

\* A step at whose end every executor rests carries the invariant if the rows do.
LEMMA RestKeeps ==
    ASSUME IInv, EvidenceInv, UNCHANGED budget \/ \E b \in Budgets : Spend(b),
           Quiet /\ Quiet' => \A e \in Executors : pc'[e] = "idle",
           Quiet => RowIsReal' /\ RunsAreReal',
           Steady => RowIsAsked' /\ UsedGrantIsSaved' /\ RunsAreAsked'
    PROVE  EvidenceInv'
<1>1. SpentInv' /\ (Quiet' => Quiet) /\ (Steady' => Steady)
  BY BudgetStep DEF EvidenceInv
<1>2. ASSUME NEW e \in Executors, pc'[e] = "idle"
      PROVE  Alone(e)' /\ EvidenceAt(e)' /\ RequestAt(e)'
  BY <1>2 DEF Alone, EvidenceAt, RequestAt, Unsaved, Fresh, Attached, Finishing, Holding
<1>3. QuietInv'
  BY <1>1, <1>2 DEF QuietInv
<1>4. SteadyInv'
  BY <1>1, <1>2 DEF SteadyInv, Steady
<1> QED
  BY <1>1, <1>3, <1>4 DEF EvidenceInv

\* A step that leaves the executors alone, and no ended session another state.
LEMMA RowsKeep ==
    ASSUME IInv, EvidenceInv, UNCHANGED budget \/ \E b \in Budgets : Spend(b),
           UNCHANGED <<work, request, runs, chk, origin, local>>,
           \A s \in Sessions : Ended(s) => Ended(s)',
           UsedGrantIsSaved => UsedGrantIsSaved'
    PROVE  EvidenceInv'
<1>1. SpentInv' /\ (Quiet' => Quiet) /\ (Steady' => Steady)
  BY BudgetStep DEF EvidenceInv
<1>2. /\ chk \in Checkpoint \cup {None} /\ \A r \in runs : r.session \in Sessions
      /\ \A e \in Executors : pc[e] \in Holding \/ Finishing(e) => sess[e] \in Sessions
  BY DEF IInv, TypeOK, QueueTypeOK, StoreTypeOK, LocalTypeOK, LocalsInv, LocalInv, Finishing
<1>3. ASSUME NEW e \in Executors, Quiet, Alone(e), EvidenceAt(e)
      PROVE  Alone(e)' /\ EvidenceAt(e)'
  <2>1. Alone(e)'
    BY <1>3 DEF Alone
  <2>2. EvidenceAt(e)'
    BY <1>2, <1>3 DEF EvidenceAt, Finishing, Unsaved, Fresh, Attached, Holding
  <2> QED
    BY <2>1, <2>2
<1>4. RowIsReal /\ RunsAreReal => RowIsReal' /\ RunsAreReal'
  BY <1>2, CheckpointFields DEF RowIsReal, RunsAreReal
<1>5. QuietInv'
  BY <1>1, <1>3, <1>4 DEF EvidenceInv, QuietInv
<1>6. SteadyInv'
  BY <1>1 DEF EvidenceInv, SteadyInv, RequestAt, Finishing, RowIsAsked, RunsAreAsked, Asked
<1> QED
  BY <1>1, <1>5, <1>6 DEF EvidenceInv

LEMMA DispatchEvidence ==
    ASSUME NEW e \in Executors, IInv, EvidenceInv, Dispatch(e)
    PROVE  EvidenceInv'
<1>1. SpentInv' /\ (Quiet' => Quiet) /\ (Steady' => Steady)
  BY BudgetStep DEF EvidenceInv, Dispatch
<1>2. Quiet => \A x \in Executors : pc[x] = "idle"
  BY OthersRest DEF Dispatch
<1>3. QuietInv'
  BY <1>1, <1>2 DEF IInv, TypeOK, LocalTypeOK, EvidenceInv, QuietInv, Alone, EvidenceAt, RowIsReal,
         RunsAreReal, Unsaved, Fresh, Attached, Finishing, Ended, Dispatch
<1>4. SteadyInv'
  BY <1>1, <1>2 DEF IInv, TypeOK, LocalTypeOK, EvidenceInv, Steady, SteadyInv, RequestAt, RowIsAsked,
         UsedGrantIsSaved, RunsAreAsked, Asked, Holding, Finishing, Dispatch
<1> QED
  BY <1>1, <1>3, <1>4 DEF EvidenceInv

LEMMA ClaimRecoveredEvidence ==
    ASSUME IInv, EvidenceInv, ClaimRecovered
    PROVE  EvidenceInv'
<1>1. Quiet /\ Quiet' => \A e \in Executors : pc'[e] = "idle"
  BY DEF IInv, TypeOK, Budgets, Quiet, ClaimRecovered
<1>2. Quiet => RowIsReal' /\ RunsAreReal'
  BY DEF EvidenceInv, QuietInv, RowIsReal, RunsAreReal, Ended, ClaimRecovered
<1>3. Steady => RowIsAsked' /\ UsedGrantIsSaved' /\ RunsAreAsked'
  BY DEF EvidenceInv, SteadyInv, RowIsAsked, UsedGrantIsSaved, RunsAreAsked, Asked, ClaimRecovered
<1> QED
  BY <1>1, <1>2, <1>3, RestKeeps DEF Budgets, ClaimRecovered

LEMMA BackoffEndsEvidence ==
    ASSUME IInv, EvidenceInv, BackoffEnds
    PROVE  EvidenceInv'
<1>1. Quiet => \A e \in Executors : pc'[e] = "idle"
  BY OthersRest DEF BackoffEnds
<1>2. Quiet => RowIsReal' /\ RunsAreReal'
  BY DEF EvidenceInv, QuietInv, RowIsReal, RunsAreReal, Ended, BackoffEnds
<1>3. Steady => RowIsAsked' /\ UsedGrantIsSaved' /\ RunsAreAsked'
  BY DEF EvidenceInv, SteadyInv, RowIsAsked, UsedGrantIsSaved, RunsAreAsked, Asked, BackoffEnds
<1> QED
  BY <1>1, <1>2, <1>3, RestKeeps DEF BackoffEnds

LEMMA ProgressEvidence ==
    ASSUME NEW s \in Sessions, IInv, EvidenceInv, Progress(s) \/ Forget(s)
    PROVE  EvidenceInv'
<1>1. \A t \in Sessions : Ended(t) => Ended(t)'
  BY DEF IInv, TypeOK, ServerTypeOK, Ended, Progress, Forget
<1>2. UsedGrantIsSaved => UsedGrantIsSaved'
  BY DEF UsedGrantIsSaved, Progress, Forget
<1> QED
  BY <1>1, <1>2, RowsKeep DEF Budgets, Progress, Forget

LEMMA ResolveBlockedEvidence ==
    ASSUME IInv, EvidenceInv, ResolveBlocked
    PROVE  EvidenceInv'
<1>1. Quiet => \A e \in Executors : pc'[e] = "idle"
  BY OthersRest DEF ResolveBlocked
<1>2. Quiet => RowIsReal' /\ RunsAreReal'
  BY DEF EvidenceInv, QuietInv, RowIsReal, RunsAreReal, Ended, ResolveBlocked
<1>3. Steady => RowIsAsked' /\ UsedGrantIsSaved' /\ RunsAreAsked'
  BY DEF EvidenceInv, SteadyInv, RowIsAsked, UsedGrantIsSaved, RunsAreAsked, Asked, ResolveBlocked
<1> QED
  BY <1>1, <1>2, <1>3, RestKeeps DEF Budgets, ResolveBlocked

\* A repair of an item without a checkpoint finds no replacement either: nobody rests
\* between creating one and saving it.
LEMMA RepairRoutesEvidence ==
    ASSUME IInv, EvidenceInv, RepairRoutes
    PROVE  EvidenceInv'
<1>1. Quiet => \A e \in Executors : pc'[e] = "idle" /\ pc[e] = "idle"
  BY OthersRest DEF RepairRoutes
<1>2. Quiet => RowIsReal' /\ RunsAreReal'
  BY DEF EvidenceInv, QuietInv, RowIsReal, RunsAreReal, Ended, RepairRoutes
<1>3. Steady => RowIsAsked' /\ UsedGrantIsSaved' /\ RunsAreAsked'
  <2> SUFFICES ASSUME Steady PROVE RowIsAsked' /\ UsedGrantIsSaved' /\ RunsAreAsked'
    OBVIOUS
  <2>1. chk' = None /\ runs' = runs /\ origin' = origin
    BY DEF RepairRoutes
  <2>2. grant' # None => grant'.replacement = None
    <3>1. CASE chk = None
      BY <1>1, <3>1 DEF EvidenceInv, Steady, SteadyInv, UsedGrantIsSaved, RepairRoutes
    <3>2. CASE chk # None
      BY <3>2 DEF RepairRoutes
    <3> QED
      BY <3>1, <3>2
  <2> QED
    BY <2>1, <2>2 DEF EvidenceInv, SteadyInv, RowIsAsked, UsedGrantIsSaved, RunsAreAsked, Asked
<1> QED
  BY <1>1, <1>2, <1>3, RestKeeps DEF Budgets, RepairRoutes

LEMMA PlanEvidence ==
    ASSUME IInv, EvidenceInv, PlanZombie \/ PlanOrphan
    PROVE  EvidenceInv'
<1>1. UsedGrantIsSaved => UsedGrantIsSaved'
  BY DEF UsedGrantIsSaved, PlanZombie, PlanOrphan
<1>2. \A s \in Sessions : Ended(s) => Ended(s)'
  BY DEF Ended, PlanZombie, PlanOrphan
<1> QED
  BY <1>1, <1>2, RowsKeep DEF Budgets, PlanZombie, PlanOrphan

LEMMA ApplyZombieEvidence ==
    ASSUME IInv, EvidenceInv, ApplyZombie
    PROVE  EvidenceInv'
<1>1. CASE UNCHANGED <<work, store>>
  <2>1. \A s \in Sessions : Ended(s) => Ended(s)'
    BY DEF Ended, ApplyZombie
  <2>2. UsedGrantIsSaved => UsedGrantIsSaved'
    BY <1>1 DEF UsedGrantIsSaved, ApplyZombie
  <2> QED
    BY <1>1, <2>1, <2>2, RowsKeep DEF ApplyZombie
<1>2. CASE /\ Stuck /\ chk' = None
           /\ grant' = [old |-> plan.session, reserved |-> FALSE, replacement |-> None]
  <2>1. Quiet => \A e \in Executors : pc'[e] = "idle"
    BY <1>2, OthersRest DEF ApplyZombie
  <2>2. Quiet => RowIsReal' /\ RunsAreReal'
    BY <1>2 DEF EvidenceInv, QuietInv, RowIsReal, RunsAreReal, Ended, ApplyZombie
  <2>3. Steady => RowIsAsked' /\ UsedGrantIsSaved' /\ RunsAreAsked'
    BY <1>2 DEF EvidenceInv, SteadyInv, RowIsAsked, UsedGrantIsSaved, RunsAreAsked, Asked, ApplyZombie
  <2> QED
    BY <2>1, <2>2, <2>3, RestKeeps DEF ApplyZombie
<1> QED
  BY <1>1, <1>2 DEF ApplyZombie

LEMMA ApplyOrphanEvidence ==
    ASSUME IInv, EvidenceInv, ApplyOrphan
    PROVE  EvidenceInv'
<1>1. grant \in Grant
  BY DEF IInv, TypeOK, StoreTypeOK, KnownInv, ApplyOrphan
<1>2. grant'.replacement = grant.replacement
  BY <1>1 DEF Grant, ApplyOrphan
<1>3. UsedGrantIsSaved => UsedGrantIsSaved'
  BY <1>1, <1>2, NoneIsNoRow DEF UsedGrantIsSaved, ApplyOrphan
<1>4. \A s \in Sessions : Ended(s) => Ended(s)'
  BY DEF Ended, ApplyOrphan
<1> QED
  BY <1>3, <1>4, RowsKeep DEF ApplyOrphan

LEMMA EvidenceInit == Init => EvidenceInv
<1>1. Bounds["timeout"] = MaxTimeouts
  BY DEF Bounds, Budgets
<1> QED
  BY <1>1, DirectAssumption DEF Init, EvidenceInv, SpentInv, QuietInv, SteadyInv, Alone, EvidenceAt,
         RowIsReal, RunsAreReal, RequestAt, RowIsAsked, UsedGrantIsSaved, RunsAreAsked, Unsaved, Fresh,
         Attached, Finishing, Holding

LEMMA EvidenceNext ==
    ASSUME IInv, EvidenceInv, [Next]_vars
    PROVE  EvidenceInv'
<1>1. CASE \E e \in Executors : Step(e)
  BY <1>1, DispatchEvidence, ReadEvidence, AdoptEvidence, ResumeEvidence, ReserveEvidence,
        CreateEvidence, ReleaseEvidence, PersistIdEvidence, SaveDraftEvidence, StartEvidence,
        FetchEvidence, ObserveEvidence, JudgeEvidence, MarkEvidence, KickEvidence,
        SaveSuccessEvidence, SaveFailureEvidence, ExceptEvidence, RecoverMissingEvidence,
        SaveStartFailedEvidence, ReportEvidence, RecordEvidence,
        InitializeFailsEvidence, ApplyEvidence DEF Step
<1>2. CASE \E e \in Executors : Crash(e)
  BY <1>2, CrashEvidence
<1>3. CASE \E s \in Sessions : Progress(s) \/ Forget(s)
  BY <1>3, ProgressEvidence
<1>4. CASE ClaimRecovered \/ BackoffEnds
  BY <1>4, ClaimRecoveredEvidence, BackoffEndsEvidence
<1>5. CASE Operate
  BY <1>5, ResolveBlockedEvidence, RepairRoutesEvidence, PlanEvidence, ApplyZombieEvidence,
        ApplyOrphanEvidence DEF Operate
<1>6. CASE UNCHANGED vars
  <2>1. UsedGrantIsSaved => UsedGrantIsSaved'
    BY <1>6 DEF UsedGrantIsSaved, vars
  <2>2. \A s \in Sessions : Ended(s) => Ended(s)'
    BY <1>6 DEF Ended, vars
  <2> QED
    BY <1>6, <2>1, <2>2, RowsKeep DEF vars
<1> QED
  BY <1>1, <1>2, <1>3, <1>4, <1>5, <1>6 DEF Next

LEMMA EvidenceInductive == Spec => []EvidenceInv
<1>1. Init => EvidenceInv
  BY EvidenceInit
<1>2. IInv /\ EvidenceInv /\ [Next]_vars => EvidenceInv'
  BY EvidenceNext
<1> QED
  BY <1>1, <1>2, Inductive, PTL DEF Spec

\* _observe_session and _save_checkpoint: for any number of executors, whatever is lost,
\* forgotten, killed or repaired, a terminal success in the checkpoint and every finished
\* run are those of a session that did end, as long as no claim times out under a living
\* executor: the executors take turns, so the row that is updated in place is the writer's.
THEOREM EvidenceStaysReal == Spec => []EvidenceIsReal
<1>1. EvidenceInv => EvidenceIsReal
  BY DEF EvidenceInv, QuietInv, Quiet, RowIsReal, RunsAreReal, Ended, EvidenceIsReal
<1> QED
  BY <1>1, EvidenceInductive, PTL

\* repair_work_item_data_routes: no finished run answers a request with a session made for
\* an earlier one, unless an executor was killed or a claim timed out under it.
THEOREM RunsAnswerTheirRequest == Spec => []RunsMatchRequest
<1>1. EvidenceInv => RunsMatchRequest
  BY DEF EvidenceInv, SteadyInv, Steady, Quiet, RunsAreAsked, Asked, RunsMatchRequest
<1> QED
  BY <1>1, EvidenceInductive, PTL

=============================================================================
