--------------------------- MODULE AdvisoryMemory ---------------------------
(***************************************************************************)
(* What the research memory promises (docs/research-memory.md), without its    *)
(* outbox states, retries, processes and lost answers: a judgement that is     *)
(* recorded may be queued, at once or later, unless its text is unsafe; the    *)
(* provider is sent only what is queued; `memory init` vouches only for what    *)
(* the provider has; and nothing of this is ever taken back.                   *)
(*                                                                         *)
(* A judgement is named by the time at which it was made.                      *)
(***************************************************************************)
CONSTANT Times

VARIABLES
    recorded,  \* judgements in evaluation_history
    unsafe,    \* those whose text may not leave the database
    queued,    \* judgements with a learning in research_memory_outbox
    sent,      \* judgements of which the provider has a message
    vouched    \* judgements that a `memory init` has reported delivered

promise == <<recorded, unsafe, queued, sent, vouched>>

Init ==
    /\ recorded = {} /\ unsafe = {}
    /\ queued = {} /\ sent = {} /\ vouched = {}

\* A judgement is recorded once.  If its text is safe it may be queued with it.
Record(a) ==
    /\ a \notin recorded
    /\ recorded' = recorded \cup {a}
    /\ \/ unsafe' = unsafe /\ queued' \in {queued, queued \cup {a}}
       \/ unsafe' = unsafe \cup {a} /\ queued' = queued
    /\ UNCHANGED <<sent, vouched>>

\* Judgements that are recorded are queued later.
Queue(as) ==
    /\ as \subseteq recorded \ unsafe
    /\ queued' = queued \cup as
    /\ UNCHANGED <<recorded, unsafe, sent, vouched>>

Send(a) ==
    /\ a \in queued
    /\ sent' = sent \cup {a}
    /\ UNCHANGED <<recorded, unsafe, queued, vouched>>

Vouch(as) ==
    /\ as \subseteq sent
    /\ vouched' = vouched \cup as
    /\ UNCHANGED <<recorded, unsafe, queued, sent>>

Next ==
    \/ \E a \in Times : Record(a) \/ Send(a)
    \/ \E as \in SUBSET Times : Queue(as) \/ Vouch(as)

Spec == Init /\ [][Next]_promise
=============================================================================
