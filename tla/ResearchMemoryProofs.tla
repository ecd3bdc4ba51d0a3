------------------------ MODULE ResearchMemoryProofs ------------------------
(***************************************************************************)
(* For any number of experiments, runs, evaluators, judgements and failures: *)
(* what the history, the evidence, the outbox and the provider agree on.     *)
(***************************************************************************)
EXTENDS ResearchMemory, FiniteSetTheorems, SequenceTheorems, TLAPS

-----------------------------------------------------------------------------
(* Appending a judgement.                                                   *)

(* g is the history h after the judgement j.                                *)
Follows(g, h, j) ==
  /\ g \in Seq(Row) /\ Len(g) = Len(h) + 1
  /\ \A i \in DOMAIN h :
        /\ g[i].exp = h[i].exp /\ g[i].by = h[i].by /\ g[i].at = h[i].at
        /\ g[i].kind = h[i].kind /\ g[i].sequence = h[i].sequence
        /\ g[i].current = (h[i].current /\ i \notin Superseded(h, j))
  /\ g[Len(h) + 1] = [exp |-> j.exp, by |-> j.by, at |-> j.at, kind |-> j.kind,
                      sequence |-> Cardinality(Superseded(h, j)), current |-> TRUE]

(* Of any rows there is one that was evaluated last.                        *)
HasNewest(h) == \A S \in SUBSET DOMAIN h : S # {} => Newest(h, S) # {}

LEMMA AppendedFollows ==
  ASSUME NEW h \in Seq(Row), NEW j \in Judgement
  PROVE  Follows(Appended(h, j), h, j)
<1> DEFINE mine == Superseded(h, j)
           kept == [i \in DOMAIN h |-> IF i \in mine THEN [h[i] EXCEPT !.current = FALSE] ELSE h[i]]
           last == [exp |-> j.exp, by |-> j.by, at |-> j.at, kind |-> j.kind,
                    sequence |-> Cardinality(mine), current |-> TRUE]
<1>1. DOMAIN h = 1 .. Len(h) /\ Len(h) \in Nat /\ \A i \in DOMAIN h : h[i] \in Row
  OBVIOUS
<1>2. Cardinality(mine) \in Nat
  <2>1. mine \in SUBSET (1 .. Len(h))
    BY <1>1 DEF Superseded
  <2>2. IsFiniteSet(1 .. Len(h))
    BY <1>1, FS_Interval
  <2>3. IsFiniteSet(mine)
    BY <2>1, <2>2, FS_Subset
  <2>4. QED
    BY <2>3, FS_CardinalityType
<1>3. last \in Row
  BY <1>2 DEF Row, Judgement
<1>4. \A i \in DOMAIN h :
        /\ kept[i] \in Row
        /\ kept[i].exp = h[i].exp /\ kept[i].by = h[i].by /\ kept[i].at = h[i].at
        /\ kept[i].kind = h[i].kind /\ kept[i].sequence = h[i].sequence
        /\ kept[i].current = (h[i].current /\ i \notin mine)
  <2> SUFFICES ASSUME NEW i \in DOMAIN h
               PROVE  /\ kept[i] \in Row
                      /\ kept[i].exp = h[i].exp /\ kept[i].by = h[i].by /\ kept[i].at = h[i].at
                      /\ kept[i].kind = h[i].kind /\ kept[i].sequence = h[i].sequence
                      /\ kept[i].current = (h[i].current /\ i \notin mine)
    OBVIOUS
  <2>1. h[i] \in Row
    BY <1>1
  <2>2. CASE i \in mine
    BY <2>1, <2>2 DEF Row
  <2>3. CASE i \notin mine
    BY <2>1, <2>3 DEF Row
  <2>4. QED
    BY <2>2, <2>3
<1>5. kept \in [1 .. Len(h) -> Row]
  BY <1>1, <1>4
<1>6. Appended(h, j) = Append(kept, last)
  BY DEF Appended
<1> HIDE DEF kept, last, mine
<1>7. kept \in Seq(Row) /\ Len(kept) = Len(h)
  BY <1>1, <1>5
<1>8. /\ Append(kept, last) \in Seq(Row) /\ Len(Append(kept, last)) = Len(h) + 1
      /\ \A i \in 1 .. Len(h) : Append(kept, last)[i] = kept[i]
      /\ Append(kept, last)[Len(h) + 1] = last
  BY <1>3, <1>7, AppendProperties
<1>9. QED
  BY <1>1, <1>4, <1>6, <1>8, ZenonT(40) DEF Follows, mine, last

LEMMA NewestOfAppended ==
  ASSUME NEW h \in Seq(Row), NEW j \in Judgement, NEW g, Follows(g, h, j), HasNewest(h)
  PROVE  HasNewest(g)
<1> SUFFICES ASSUME NEW S \in SUBSET DOMAIN g, S # {}
             PROVE  \E i \in S : \A k \in S : g[i].at >= g[k].at
  BY DEF HasNewest, Newest
<1> DEFINE n == Len(h) + 1
           T == S \ {n}
<1>1. DOMAIN g = 1 .. n /\ DOMAIN h = 1 .. Len(h) /\ n = Len(h) + 1 /\ Len(h) \in Nat
  BY DEF Follows
<1>2. T \in SUBSET DOMAIN h
  BY <1>1
<1>3. \A i \in DOMAIN g : g[i].at \in Nat
  <2>1. g \in Seq(Row)
    BY DEF Follows
  <2>2. \A i \in DOMAIN g : g[i] \in Row
    BY <2>1
  <2>3. QED
    BY <2>2 DEF Row
<1>4. \A i \in DOMAIN h : g[i].at = h[i].at
  BY DEF Follows
<1>5. CASE T = {}
  <2>1. S = {n}
    BY <1>5
  <2>2. QED
    BY <2>1, <1>3
<1>6. CASE T # {}
  <2>1. PICK i \in T : \A k \in T : h[i].at >= h[k].at
    BY <1>2, <1>6 DEF HasNewest, Newest
  <2>2. \A k \in T : g[i].at >= g[k].at
    BY <2>1, <1>2, <1>4
  <2>3. CASE n \notin S
    BY <2>2, <2>3
  <2>4. CASE n \in S /\ g[n].at >= g[i].at
    <3>1. \A k \in S : g[n].at >= g[k].at
      <4> SUFFICES ASSUME NEW k \in S PROVE g[n].at >= g[k].at
        OBVIOUS
      <4>1. g[n].at \in Nat /\ g[k].at \in Nat /\ g[i].at \in Nat
        BY <1>3, <2>4
      <4> HIDE DEF n
      <4>2. k = n \/ g[i].at >= g[k].at
        BY <2>2
      <4>3. QED
        BY <4>1, <4>2, <2>4
    <3>2. QED
      BY <3>1, <2>4
  <2>5. CASE n \in S /\ ~(g[n].at >= g[i].at)
    <3>1. g[n].at \in Nat /\ g[i].at \in Nat
      BY <1>3, <2>5
    <3>2. \A k \in S : g[i].at >= g[k].at
      BY <3>1, <2>2, <2>5
    <3>3. QED
      BY <3>2
  <2>6. QED
    BY <2>3, <2>4, <2>5
<1>7. QED
  BY <1>5, <1>6

(* The latest verdict on an experiment is a row about it, if there is one.  *)
LEMMA LatestIsRow ==
  ASSUME NEW h \in Seq(Row), HasNewest(h), NEW e
  PROVE  /\ Latest(h, e) \in Nat
         /\ Latest(h, e) # Unjudged => Latest(h, e) \in DOMAIN h
<1> DEFINE rows == {i \in Current(h) : h[i].exp = e}
<1>1. rows \in SUBSET DOMAIN h /\ DOMAIN h = 1 .. Len(h) /\ Len(h) \in Nat
  BY DEF Current
<1>2. CASE rows = {}
  BY <1>2 DEF Latest, Unjudged
<1>3. CASE rows # {}
  <2>1. Newest(h, rows) # {}
    BY <1>1, <1>3 DEF HasNewest
  <2>2. OneOf(Newest(h, rows)) \in Newest(h, rows)
    BY <2>1 DEF OneOf
  <2>3. Latest(h, e) = OneOf(Newest(h, rows))
    BY <1>3 DEF Latest
  <2>4. Newest(h, rows) \subseteq DOMAIN h
    BY <1>1 DEF Newest
  <2>5. QED
    BY <1>1, <2>2, <2>3, <2>4
<1>4. QED
  BY <1>2, <1>3

(* A judgement leaves the latest verdict on every other experiment alone.   *)
LEMMA LatestElsewhere ==
  ASSUME NEW h \in Seq(Row), NEW j \in Judgement, NEW g, Follows(g, h, j), NEW e, e # j.exp
  PROVE  Latest(g, e) = Latest(h, e)
<1> DEFINE before == {i \in Current(h) : h[i].exp = e}
           after  == {i \in Current(g) : g[i].exp = e}
<1>1. DOMAIN g = 1 .. Len(h) + 1 /\ DOMAIN h = 1 .. Len(h) /\ Len(h) \in Nat
  BY DEF Follows
<1>2. g[Len(h) + 1].exp = j.exp
  BY DEF Follows
<1>3. \A i \in DOMAIN h : h[i].exp = e => i \notin Superseded(h, j)
  BY DEF Superseded
<1>4. \A i \in DOMAIN h : /\ g[i].exp = h[i].exp /\ g[i].at = h[i].at
                          /\ h[i].exp = e => g[i].current = h[i].current
  <2> SUFFICES ASSUME NEW i \in DOMAIN h
               PROVE  /\ g[i].exp = h[i].exp /\ g[i].at = h[i].at
                      /\ h[i].exp = e => g[i].current = h[i].current
    OBVIOUS
  <2>1. h[i] \in Row
    OBVIOUS
  <2>2. h[i].current \in BOOLEAN
    BY <2>1 DEF Row
  <2>3. /\ g[i].exp = h[i].exp /\ g[i].at = h[i].at
        /\ g[i].current = (h[i].current /\ i \notin Superseded(h, j))
    BY DEF Follows
  <2>4. QED
    BY <1>3, <2>2, <2>3
<1>5. after = before
  BY <1>1, <1>2, <1>4 DEF Current
<1>6. \A i \in before : g[i].at = h[i].at
  BY <1>4 DEF Current
<1>7. Newest(g, after) = Newest(h, before)
  BY <1>5, <1>6 DEF Newest
<1>8. QED
  BY <1>5, <1>7 DEF Latest

-----------------------------------------------------------------------------
(* Queueing learnings.                                                      *)

(* Rows are only added to the outbox, and nothing of theirs is delivered.   *)
OutboxGrows ==
  /\ outbox' \in Seq(Entry) /\ DOMAIN outbox \subseteq DOMAIN outbox'
  /\ copies' \in [DOMAIN outbox' -> Nat]
  /\ \A k \in DOMAIN outbox : outbox'[k] = outbox[k] /\ copies'[k] = copies[k]
  /\ \A k \in DOMAIN outbox' \ DOMAIN outbox : outbox'[k].state = "pending" /\ copies'[k] = 0

(* The rows that are added hold some of these learnings.                    *)
AddedFrom(learnings) ==
  \A k \in DOMAIN outbox' \ DOMAIN outbox : outbox'[k].learning \in learnings

(* A process that delivers has rows of the outbox left to deliver.          *)
Delivering ==
  \A s \in Syncers :
     /\ sync[s].todo \in Seq(DOMAIN outbox)
     /\ sync[s].at \in {"list", "post", "delivered", "failed"} => sync[s].todo # <<>>

TypeInv == TypeOK /\ HasNewest(history) /\ Delivering

LEMMA RowsAreOrdered ==
  ASSUME NEW S, IsFiniteSet(S), NEW key, NEW rows \in Ordered(S, key)
  PROVE  rows \in Seq(S) /\ Len(rows) \in Nat
<1>1. Cardinality(S) \in Nat
  BY FS_CardinalityType
<1>2. rows \in [1 .. Cardinality(S) -> S]
  BY DEF Ordered
<1>3. QED
  BY <1>1, <1>2

LEMMA FirstRows ==
  ASSUME NEW S, NEW rows \in Seq(S), NEW n \in Nat
  PROVE  First(rows, n) \in Seq(S) /\ Len(First(rows, n)) \in Nat
<1> DEFINE m == IF Len(rows) < n THEN Len(rows) ELSE n
<1>1. m \in Nat /\ m <= Len(rows)
  OBVIOUS
<1>2. \A i \in 1 .. m : rows[i] \in S
  BY <1>1
<1>3. First(rows, n) = SubSeq(rows, 1, m)
  BY DEF First
<1> HIDE DEF m
<1>4. SubSeq(rows, 1, m) \in Seq(S)
  BY <1>1, <1>2, SubSeqProperties
<1>5. QED
  BY <1>3, <1>4

LEMMA EnqueueGrows ==
  ASSUME TypeOK, NEW learnings \in SUBSET Learning, IsFiniteSet(learnings), Enqueue(learnings)
  PROVE  OutboxGrows /\ AddedFrom(learnings)
<1> DEFINE fresh == learnings \ Queued
<1>1. PICK new \in Ordered(fresh, [l \in learnings |-> l.of]) :
         /\ outbox' = outbox \o [k \in 1 .. Len(new) |->
                         [learning |-> new[k], state |-> "pending", due |-> TRUE]]
         /\ copies' = copies \o [k \in 1 .. Len(new) |-> 0]
  BY DEF Enqueue
<1>2. IsFiniteSet(fresh)
  BY FS_Subset
<1>3. new \in Seq(fresh) /\ Len(new) \in Nat
  BY <1>1, <1>2, RowsAreOrdered
<1> DEFINE rows  == [k \in 1 .. Len(new) |-> [learning |-> new[k], state |-> "pending", due |-> TRUE]]
           zeros == [k \in 1 .. Len(new) |-> 0]
<1>4. \A k \in 1 .. Len(new) : /\ rows[k] \in Entry /\ rows[k].state = "pending"
                               /\ rows[k].learning \in learnings
  <2>1. \A k \in 1 .. Len(new) : new[k] \in Learning /\ new[k] \in learnings
    BY <1>3
  <2>2. QED
    BY <2>1 DEF Entry
<1>5. rows \in [1 .. Len(new) -> Entry] /\ zeros \in [1 .. Len(new) -> Nat]
  BY <1>4
<1>6. outbox' = outbox \o rows /\ copies' = copies \o zeros
  BY <1>1
<1>7. \A k \in 1 .. Len(new) : zeros[k] = 0
  OBVIOUS
<1> HIDE DEF rows, zeros
<1>8. rows \in Seq(Entry) /\ Len(rows) = Len(new) /\ zeros \in Seq(Nat) /\ Len(zeros) = Len(new)
  BY <1>3, <1>5, SMTT(30)
<1>9. outbox \in Seq(Entry) /\ Len(outbox) \in Nat /\ copies \in [1 .. Len(outbox) -> Nat]
  BY DEF TypeOK
<1>10. copies \in Seq(Nat) /\ Len(copies) = Len(outbox)
  BY <1>9
<1>11. /\ outbox' \in Seq(Entry) /\ Len(outbox') = Len(outbox) + Len(new)
       /\ \A k \in 1 .. Len(outbox) + Len(new) :
             outbox'[k] = IF k <= Len(outbox) THEN outbox[k] ELSE rows[k - Len(outbox)]
  <2>1. /\ outbox \o rows \in Seq(Entry) /\ Len(outbox \o rows) = Len(outbox) + Len(rows)
        /\ \A k \in 1 .. Len(outbox) + Len(rows) :
             (outbox \o rows)[k] = IF k <= Len(outbox) THEN outbox[k] ELSE rows[k - Len(outbox)]
    BY <1>8, <1>9, ConcatProperties
  <2>2. QED
    BY <2>1, <1>6, <1>8
<1>12. /\ copies' \in Seq(Nat) /\ Len(copies') = Len(outbox) + Len(new)
       /\ \A k \in 1 .. Len(outbox) + Len(new) :
             copies'[k] = IF k <= Len(outbox) THEN copies[k] ELSE zeros[k - Len(outbox)]
  <2>1. /\ copies \o zeros \in Seq(Nat) /\ Len(copies \o zeros) = Len(copies) + Len(zeros)
        /\ \A k \in 1 .. Len(copies) + Len(zeros) :
             (copies \o zeros)[k] = IF k <= Len(copies) THEN copies[k] ELSE zeros[k - Len(copies)]
    BY <1>8, <1>10, ConcatProperties
  <2>2. QED
    BY <2>1, <1>6, <1>8, <1>10
<1>13. DOMAIN outbox = 1 .. Len(outbox) /\ DOMAIN outbox' = 1 .. Len(outbox) + Len(new)
  BY <1>9, <1>11
<1>14. copies' \in [DOMAIN outbox' -> Nat]
  BY <1>12, <1>13
<1>15. \A k \in DOMAIN outbox : outbox'[k] = outbox[k] /\ copies'[k] = copies[k]
  BY <1>3, <1>9, <1>11, <1>12, <1>13
<1>16. \A k \in DOMAIN outbox' \ DOMAIN outbox :
         outbox'[k].state = "pending" /\ outbox'[k].learning \in learnings /\ copies'[k] = 0
  <2> SUFFICES ASSUME NEW k \in DOMAIN outbox' \ DOMAIN outbox
               PROVE  /\ outbox'[k].state = "pending" /\ outbox'[k].learning \in learnings
                      /\ copies'[k] = 0
    OBVIOUS
  <2>1. k - Len(outbox) \in 1 .. Len(new) /\ ~(k <= Len(outbox)) /\ k \in 1 .. Len(outbox) + Len(new)
    BY <1>3, <1>9, <1>13
  <2>2. QED
    BY <2>1, <1>4, <1>7, <1>11, <1>12
<1>17. DOMAIN outbox \subseteq DOMAIN outbox'
  BY <1>3, <1>9, <1>13
<1>18. QED
  BY <1>11, <1>14, <1>15, <1>16, <1>17 DEF OutboxGrows, AddedFrom

LEMMA UnchangedGrows ==
  ASSUME TypeOK, UNCHANGED <<outbox, copies>>
  PROVE  OutboxGrows /\ AddedFrom({})
<1>1. outbox' = outbox /\ copies' = copies /\ outbox \in Seq(Entry) /\ Len(outbox) \in Nat
  BY DEF TypeOK
<1>2. copies \in [DOMAIN outbox -> Nat]
  BY DEF TypeOK
<1>3. QED
  BY <1>1, <1>2 DEF OutboxGrows, AddedFrom

LEMMA LearningsAreTyped ==
  ASSUME NEW j, j.exp \in Experiments, j.at \in Nat, NEW f \in [Runs -> Findings]
  PROVE  LearningOf(j, f) \in Learning
BY DEF LearningOf, Learning, Findings

LEMMA EnqueueSafelyGrows ==
  ASSUME TypeOK, NEW j \in Judgement, NEW f \in [Runs -> Findings], EnqueueSafely(j, f)
  PROVE  /\ OutboxGrows
         /\ AddedFrom({LearningOf(j, f)}) /\ (j.kind = "unsafe" => AddedFrom({}))
<1> DEFINE learnings == IF j.kind = "unsafe" THEN {} ELSE {LearningOf(j, f)}
<1>1. LearningOf(j, f) \in Learning
  BY LearningsAreTyped DEF Judgement
<1>2. learnings \in SUBSET Learning
  BY <1>1
<1>3. IsFiniteSet(learnings)
  BY FS_EmptySet, FS_Singleton
<1>4. Enqueue(learnings)
  BY DEF EnqueueSafely
<1>5. OutboxGrows /\ AddedFrom(learnings)
  BY <1>2, <1>3, <1>4, EnqueueGrows
<1>6. QED
  BY <1>5 DEF AddedFrom

LEMMA RefreshedIsTyped ==
  ASSUME NEW h \in Seq(Row), HasNewest(h), NEW f \in [Runs -> Findings], NEW runs
  PROVE  Refreshed(h, f, runs) \in [Runs -> Findings]
<1>1. \A r \in Runs : Latest(h, RunOf[r]) \in Nat
  BY LatestIsRow
<1>2. QED
  BY <1>1 DEF Refreshed, Findings

(* Storing a judgement adds a row to the history and perhaps one to the     *)
(* outbox.                                                                  *)
LEMMA StoreGrows ==
  ASSUME TypeInv, NEW v \in Evaluators, judging[v] # NoJudgement, NEW runs, NEW learn \in BOOLEAN,
         Store(v, runs, learn)
  PROVE  /\ judging[v] \in Judgement
         /\ Follows(history', history, judging[v]) /\ HasNewest(history')
         /\ history' = Appended(history, judging[v])
         /\ finding' = Refreshed(history', finding, runs)
         /\ finding' \in [Runs -> Findings]
         /\ judging' \in [Evaluators -> Judgement \cup {NoJudgement}]
         /\ judging' = [judging EXCEPT ![v] = NoJudgement]
         /\ OutboxGrows
         /\ AddedFrom({LearningOf(judging[v], finding')})
         /\ judging[v].kind = "unsafe" => AddedFrom({})
         /\ UNCHANGED <<clock, scan, ready, used>>
<1> DEFINE j == judging[v]
<1>1. /\ j \in Judgement /\ history \in Seq(Row) /\ finding \in [Runs -> Findings]
      /\ judging \in [Evaluators -> Judgement \cup {NoJudgement}] /\ HasNewest(history) /\ TypeOK
  BY DEF TypeInv, TypeOK
<1>2. /\ history' = Appended(history, j) /\ finding' = Refreshed(history', finding, runs)
      /\ judging' = [judging EXCEPT ![v] = NoJudgement]
      /\ IF learn THEN EnqueueSafely(j, finding') ELSE UNCHANGED <<outbox, copies>>
      /\ UNCHANGED <<clock, scan, ready, used>>
  BY DEF Store
<1> HIDE DEF j
<1>3. Follows(history', history, j)
  BY <1>1, <1>2, AppendedFollows
<1>4. HasNewest(history')
  BY <1>1, <1>3, NewestOfAppended
<1>5. history' \in Seq(Row)
  BY <1>3 DEF Follows
<1>6. finding' \in [Runs -> Findings]
  BY <1>1, <1>2, <1>4, <1>5, RefreshedIsTyped
<1>7. judging' \in [Evaluators -> Judgement \cup {NoJudgement}]
  BY <1>1, <1>2
<1>8. OutboxGrows /\ AddedFrom({LearningOf(j, finding')}) /\ (j.kind = "unsafe" => AddedFrom({}))
  <2>1. CASE learn
    BY <1>1, <1>2, <1>6, <2>1, EnqueueSafelyGrows
  <2>2. CASE ~learn
    BY <1>1, <1>2, <2>2, UnchangedGrows DEF AddedFrom
  <2>3. QED
    BY <2>1, <2>2
<1>9. QED
  BY <1>1, <1>2, <1>3, <1>4, <1>6, <1>7, <1>8 DEF j

-----------------------------------------------------------------------------
(* The rows of the tables, and the rows a delivery has to work on.          *)

(* A step that leaves judgements and evidence alone, and at most adds to the *)
(* outbox, keeps the rest typed if what syncers do is.                      *)
LEMMA GrowingKeepsTypes ==
  ASSUME TypeInv, OutboxGrows, UNCHANGED <<clock, judging, history, finding, used>>,
         sync' \in [Syncers -> Sync], Delivering', scan' \subseteq DOMAIN history,
         ready' \subseteq DOMAIN history
  PROVE  TypeInv'
BY DEF TypeInv, TypeOK, OutboxGrows

(* What may be left to deliver may be left when the outbox has grown.       *)
LEMMA GrowingKeepsWork ==
  ASSUME TypeInv, DOMAIN outbox \subseteq DOMAIN outbox', NEW s \in Syncers
  PROVE  sync[s].todo \in Seq(DOMAIN outbox')
<1>1. sync[s].todo \in Seq(DOMAIN outbox)
  BY DEF TypeInv, Delivering
<1>2. sync[s].todo \in [1 .. Len(sync[s].todo) -> DOMAIN outbox] /\ Len(sync[s].todo) \in Nat
  BY <1>1
<1>3. sync[s].todo \in [1 .. Len(sync[s].todo) -> DOMAIN outbox']
  BY <1>2
<1>4. QED
  BY <1>2, <1>3

(* A change of label keeps what a syncer has to do.                         *)
LEMMA GotoMoves ==
  ASSUME TypeInv, NEW s \in Syncers, NEW label \in Labels, Goto(s, label)
  PROVE  /\ sync' \in [Syncers -> Sync]
         /\ sync'[s].at = label /\ sync'[s].todo = sync[s].todo /\ sync'[s].init = sync[s].init
         /\ \A t \in Syncers \ {s} : sync'[t] = sync[t]
<1>1. sync \in [Syncers -> Sync] /\ sync' = [sync EXCEPT ![s].at = label]
  BY DEF TypeInv, TypeOK, Goto
<1>2. sync[s] \in Sync
  BY <1>1
<1>3. sync'[s] = [sync[s] EXCEPT !.at = label]
  BY <1>1
<1>4. [sync[s] EXCEPT !.at = label] \in Sync
  BY <1>2 DEF Sync
<1>5. \A t \in Syncers \ {s} : sync'[t] = sync[t]
  BY <1>1
<1>6. sync' \in [Syncers -> Sync]
  BY <1>1, <1>3, <1>4
<1>7. QED
  BY <1>2, <1>3, <1>5, <1>6 DEF Sync

(* ... and is right when it has something to deliver.                       *)
LEMMA GotoDelivers ==
  ASSUME TypeInv, NEW s \in Syncers, NEW label \in Labels, Goto(s, label),
         DOMAIN outbox \subseteq DOMAIN outbox',
         label \in {"list", "post", "delivered", "failed"} => sync[s].todo # <<>>
  PROVE  sync' \in [Syncers -> Sync] /\ Delivering'
<1>1. /\ sync' \in [Syncers -> Sync]
      /\ sync'[s].at = label /\ sync'[s].todo = sync[s].todo /\ sync'[s].init = sync[s].init
      /\ \A t \in Syncers \ {s} : sync'[t] = sync[t]
  BY GotoMoves
<1>2. \A t \in Syncers : sync[t].todo \in Seq(DOMAIN outbox')
  BY GrowingKeepsWork
<1>3. \A t \in Syncers : sync[t].at \in {"list", "post", "delivered", "failed"} => sync[t].todo # <<>>
  BY DEF TypeInv, Delivering
<1>4. QED
  BY <1>1, <1>2, <1>3 DEF Delivering

(* What a syncer has selected, or has left.                                 *)
LEMMA WorkDelivers ==
  ASSUME TypeInv, NEW s \in Syncers, NEW label \in Labels, NEW todo \in Seq(DOMAIN outbox),
         NEW init \in BOOLEAN, DOMAIN outbox \subseteq DOMAIN outbox',
         sync' = [sync EXCEPT ![s] = [at |-> label, todo |-> todo, init |-> init]],
         label \in {"list", "post", "delivered", "failed"} => todo # <<>>
  PROVE  sync' \in [Syncers -> Sync] /\ Delivering'
<1>1. sync \in [Syncers -> Sync] /\ DOMAIN outbox = 1 .. Len(outbox)
  BY DEF TypeInv, TypeOK
<1>2. todo \in [1 .. Len(todo) -> DOMAIN outbox] /\ Len(todo) \in Nat
  OBVIOUS
<1>3. DOMAIN outbox \subseteq DOMAIN outbox' /\ DOMAIN outbox \subseteq Nat
  BY <1>1 DEF TypeInv, TypeOK
<1>4. todo \in Seq(Nat) /\ todo \in Seq(DOMAIN outbox')
  <2>1. todo \in [1 .. Len(todo) -> Nat] /\ todo \in [1 .. Len(todo) -> DOMAIN outbox']
    BY <1>2, <1>3
  <2>2. QED
    BY <1>2, <2>1
<1>5. [at |-> label, todo |-> todo, init |-> init] \in Sync
  BY <1>4 DEF Sync
<1>6. sync' \in [Syncers -> Sync]
  BY <1>1, <1>5
<1>7. \A t \in Syncers : sync[t].todo \in Seq(DOMAIN outbox')
  BY GrowingKeepsWork
<1>8. \A t \in Syncers : sync[t].at \in {"list", "post", "delivered", "failed"} => sync[t].todo # <<>>
  BY DEF TypeInv, Delivering
<1>9. Delivering'
  BY <1>1, <1>4, <1>7, <1>8 DEF Delivering
<1>10. QED
  BY <1>6, <1>9

(* A fault is counted.                                                      *)
LEMMA SpendCounts ==
  ASSUME TypeOK, NEW fault \in Faults, Spend(fault)
  PROVE  /\ used' \in [Faults -> Nat] /\ used'[fault] = used[fault] + 1
         /\ \A f \in Faults \ {fault} : used'[f] = used[f]
<1>1. used \in [Faults -> Nat] /\ used' = [used EXCEPT ![fault] = @ + 1]
  BY DEF TypeOK, Spend
<1>2. used[fault] \in Nat
  BY <1>1
<1>3. QED
  BY <1>1, <1>2

(* The first row that a delivery has to work on, and those it has left.     *)
LEMMA WorkLeft ==
  ASSUME TypeInv, NEW s \in Syncers, sync[s].at \in {"list", "post", "delivered", "failed"}
  PROVE  /\ Head(sync[s].todo) \in DOMAIN outbox
         /\ Tail(sync[s].todo) \in Seq(DOMAIN outbox)
         /\ sync[s].todo # <<>>
<1>1. sync[s].todo \in Seq(DOMAIN outbox) /\ sync[s].todo # <<>>
  BY DEF TypeInv, Delivering
<1>2. QED
  BY <1>1, HeadTailProperties

LEMMA SyncMoves ==
  ASSUME NEW d \in Sync, NEW todo, NEW label
  PROVE  [[d EXCEPT !.todo = todo] EXCEPT !.at = label]
           = [at |-> label, todo |-> todo, init |-> d.init]
<1>1. d = [at |-> d.at, todo |-> d.todo, init |-> d.init]
  BY DEF Sync
<1>2. [d EXCEPT !.todo = todo] = [at |-> d.at, todo |-> todo, init |-> d.init]
  BY <1>1
<1>3. \A e : e = [at |-> d.at, todo |-> todo, init |-> d.init]
               => [e EXCEPT !.at = label] = [at |-> label, todo |-> todo, init |-> d.init]
  OBVIOUS
<1>4. QED
  BY <1>2, <1>3

(* Selecting takes rows of the outbox.                                      *)
LEMMA SelectTakes ==
  ASSUME TypeInv, NEW s \in Syncers, Select(s)
  PROVE  \E todo \in Seq(DOMAIN outbox), label \in {"list", "check", "idle"} :
            /\ sync' = [sync EXCEPT ![s] = [at |-> label, todo |-> todo, init |-> sync[s].init]]
            /\ label = "list" => todo # <<>>
<1>1. outbox \in Seq(Entry) /\ DOMAIN outbox = 1 .. Len(outbox) /\ Len(outbox) \in Nat
      /\ sync \in [Syncers -> Sync]
  BY DEF TypeInv, TypeOK
<1>2. PICK rows \in Ordered(Eligible, [k \in Eligible |-> k]) :
         sync' = [sync EXCEPT ![s].todo = First(rows, Limit(s)),
                              ![s].at = CASE First(rows, Limit(s)) # <<>> -> "list"
                                          [] First(rows, Limit(s)) = <<>> /\ sync[s].init -> "check"
                                          [] OTHER -> "idle"]
  BY DEF Select
<1> DEFINE todo == First(rows, Limit(s))
           label == CASE todo # <<>> -> "list"
                      [] todo = <<>> /\ sync[s].init -> "check"
                      [] OTHER -> "idle"
<1>3. IsFiniteSet(Eligible)
  <2>1. Eligible \in SUBSET (1 .. Len(outbox))
    BY <1>1 DEF Eligible
  <2>2. IsFiniteSet(1 .. Len(outbox))
    BY <1>1, FS_Interval
  <2>3. QED
    BY <2>1, <2>2, FS_Subset
<1>4. rows \in Seq(Eligible)
  BY <1>2, <1>3, RowsAreOrdered
<1>5. Limit(s) \in Nat
  BY MemoryAssumption DEF Limit
<1>6. todo \in Seq(Eligible) /\ Len(todo) \in Nat
  BY <1>4, <1>5, FirstRows
<1>7. label \in {"list", "check", "idle"} /\ (label = "list" => todo # <<>>)
  OBVIOUS
<1>8. sync' = [sync EXCEPT ![s].todo = todo, ![s].at = label]
  BY <1>2
<1> HIDE DEF todo, label
<1>9. todo \in Seq(DOMAIN outbox)
  <2>1. Eligible \subseteq DOMAIN outbox
    BY DEF Eligible
  <2>2. todo \in [1 .. Len(todo) -> DOMAIN outbox]
    BY <1>6, <2>1
  <2>3. QED
    BY <1>6, <2>2
<1>10. sync[s] \in Sync
  BY <1>1
<1>11. [[sync[s] EXCEPT !.todo = todo] EXCEPT !.at = label]
         = [at |-> label, todo |-> todo, init |-> sync[s].init]
  BY <1>10, SyncMoves
<1>12. sync' = [sync EXCEPT ![s] = [[sync[s] EXCEPT !.todo = todo] EXCEPT !.at = label]]
  BY <1>1, <1>8, <1>10
<1>13. QED
  BY <1>7, <1>9, <1>11, <1>12

(* Row k has the outcome of s.                                              *)
OutboxMarked(k, s) ==
  /\ outbox' \in Seq(Entry) /\ Len(outbox') = Len(outbox) /\ DOMAIN outbox' = DOMAIN outbox
  /\ outbox'[k].learning = outbox[k].learning /\ outbox'[k].state = Outcome(s)
  /\ \A i \in DOMAIN outbox \ {k} : outbox'[i] = outbox[i]

(* Marking a row.                                                           *)
LEMMA MarkMarks ==
  ASSUME TypeInv, NEW s \in Syncers, Mark(s)
  PROVE  LET k == Head(sync[s].todo)
         IN  /\ k \in DOMAIN outbox
             /\ OutboxMarked(k, s)
             /\ \E label \in {"list", "select", "idle"} :
                   /\ sync' = [sync EXCEPT ![s] = [at |-> label, todo |-> Tail(sync[s].todo),
                                                   init |-> sync[s].init]]
                   /\ label = "list" => Tail(sync[s].todo) # <<>>
<1> DEFINE k == Head(sync[s].todo)
           rest == Tail(sync[s].todo)
           label == CASE rest # <<>> -> "list"
                      [] rest = <<>> /\ sync[s].init -> "select"
                      [] OTHER -> "idle"
           entry == [outbox[k] EXCEPT !.state = Outcome(s), !.due = (sync[s].at = "delivered")]
<1>1. outbox \in Seq(Entry) /\ DOMAIN outbox = 1 .. Len(outbox) /\ Len(outbox) \in Nat
      /\ sync \in [Syncers -> Sync] /\ sync[s] \in Sync
  BY DEF TypeInv, TypeOK
<1>2. k \in DOMAIN outbox
  BY WorkLeft DEF Mark
<1>3. outbox[k] \in Entry
  BY <1>1, <1>2
<1>4. Outcome(s) \in {"delivered", "retry"}
  BY DEF Outcome
<1>5. entry \in Entry /\ entry.learning = outbox[k].learning /\ entry.state = Outcome(s)
  BY <1>3, <1>4 DEF Entry
<1>6. outbox' = [outbox EXCEPT ![k].state = Outcome(s), ![k].due = (sync[s].at = "delivered")]
  BY DEF Mark
<1>7. outbox' = [outbox EXCEPT ![k] = entry]
  BY <1>1, <1>2, <1>3, <1>6
<1>8. sync' = [sync EXCEPT ![s].todo = rest, ![s].at = label]
  BY DEF Mark
<1>9. label \in {"list", "select", "idle"} /\ (label = "list" => rest # <<>>)
  OBVIOUS
<1> HIDE DEF k, rest, label, entry
<1>10. OutboxMarked(k, s)
  <2>1. outbox \in [1 .. Len(outbox) -> Entry]
    BY <1>1
  <2>2. outbox' \in [1 .. Len(outbox) -> Entry]
    BY <2>1, <1>5, <1>7
  <2>3. outbox' \in Seq(Entry) /\ Len(outbox') = Len(outbox) /\ DOMAIN outbox' = DOMAIN outbox
    BY <1>1, <2>2
  <2>4. outbox'[k] = entry
    BY <1>1, <1>2, <1>7
  <2>5. \A i \in DOMAIN outbox \ {k} : outbox'[i] = outbox[i]
    BY <1>1, <1>7
  <2>6. QED
    BY <2>3, <2>4, <2>5, <1>5 DEF OutboxMarked
<1>11. [[sync[s] EXCEPT !.todo = rest] EXCEPT !.at = label]
         = [at |-> label, todo |-> rest, init |-> sync[s].init]
  BY <1>1, SyncMoves
<1>12. sync' = [sync EXCEPT ![s] = [[sync[s] EXCEPT !.todo = rest] EXCEPT !.at = label]]
  BY <1>1, <1>8
<1>13. QED
  BY <1>2, <1>9, <1>10, <1>11, <1>12 DEF k, rest

(* What a backfill queues are learnings of its rows.                        *)
LEMMA InsertGrows ==
  ASSUME TypeInv, Insert
  PROVE  OutboxGrows /\ AddedFrom({LearningOf(history[i], finding) : i \in scan})
<1> DEFINE new == Unqueued(scan)
<1>1. PICK rows \in Ordered(new, [i \in new |-> history[i].at]) :
         Enqueue({LearningOf(history[First(rows, BatchSize)[n]], finding)
                    : n \in 1 .. Len(First(rows, BatchSize))})
  BY DEF Insert
<1> DEFINE batch == First(rows, BatchSize)
           learnings == {LearningOf(history[batch[n]], finding) : n \in 1 .. Len(batch)}
           built == [n \in 1 .. Len(batch) |-> LearningOf(history[batch[n]], finding)]
<1>2. /\ history \in Seq(Row) /\ DOMAIN history = 1 .. Len(history) /\ Len(history) \in Nat
      /\ scan \subseteq DOMAIN history /\ finding \in [Runs -> Findings] /\ TypeOK
  BY DEF TypeInv, TypeOK
<1>3. new \subseteq 1 .. Len(history)
  BY <1>2 DEF Unqueued
<1>4. IsFiniteSet(new)
  <2>1. IsFiniteSet(1 .. Len(history))
    BY <1>2, FS_Interval
  <2>2. new \in SUBSET (1 .. Len(history))
    BY <1>3
  <2>3. QED
    BY <2>1, <2>2, FS_Subset
<1>5. rows \in Seq(new)
  BY <1>1, <1>4, RowsAreOrdered
<1>6. batch \in Seq(new) /\ Len(batch) \in Nat
  BY <1>5, FirstRows, MemoryAssumption
<1> HIDE DEF new, batch
<1>7. \A n \in 1 .. Len(batch) : LearningOf(history[batch[n]], finding) \in Learning
  <2> SUFFICES ASSUME NEW n \in 1 .. Len(batch)
               PROVE  LearningOf(history[batch[n]], finding) \in Learning
    OBVIOUS
  <2>1. batch[n] \in 1 .. Len(history)
    BY <1>3, <1>6
  <2>2. history[batch[n]] \in Row
    BY <1>2, <2>1
  <2>3. QED
    BY <1>2, <2>2, LearningsAreTyped DEF Row
<1>8. learnings \in SUBSET Learning
  BY <1>7
<1>9. IsFiniteSet(learnings)
  <2>1. built \in Surjection(1 .. Len(batch), learnings)
    BY DEF Surjection
  <2>2. IsFiniteSet(1 .. Len(batch))
    BY <1>6, FS_Interval
  <2> HIDE DEF built, learnings
  <2>3. QED
    BY <2>1, <2>2, FS_Surjection
<1>10. Enqueue(learnings)
  BY <1>1 DEF batch
<1>11. learnings \subseteq {LearningOf(history[i], finding) : i \in scan}
  <2>1. new \subseteq scan
    BY DEF new, Unqueued
  <2>2. \A n \in 1 .. Len(batch) : batch[n] \in scan
    BY <1>6, <2>1
  <2>3. QED
    BY <2>2
<1> HIDE DEF learnings
<1>12. OutboxGrows /\ AddedFrom(learnings)
  BY <1>2, <1>8, <1>9, <1>10, EnqueueGrows
<1>13. QED
  BY <1>11, <1>12 DEF AddedFrom

(* Reevaluation appends a judgement too.                                    *)
LEMMA ReevaluateGrows ==
  ASSUME TypeInv, NEW r \in Runs, Reevaluate(r)
  PROVE  \E j \in Judgement :
            /\ j.exp = RunOf[r] /\ j.at = clock + 1 /\ history' = Appended(history, j)
            /\ finding' = Refreshed(history', finding, {r})
            /\ Follows(history', history, j) /\ HasNewest(history')
            /\ finding' \in [Runs -> Findings]
<1> DEFINE last == Latest(history, RunOf[r])
           j == [exp |-> RunOf[r], by |-> history[last].by, at |-> clock + 1, kind |-> "research"]
<1>1. /\ history \in Seq(Row) /\ HasNewest(history) /\ clock \in Nat /\ finding \in [Runs -> Findings]
      /\ RunOf[r] \in Experiments
  BY MemoryAssumption DEF TypeInv, TypeOK
<1>2. last # Unjudged /\ history' = Appended(history, j) /\ finding' = Refreshed(history', finding, {r})
  BY DEF Reevaluate
<1>3. last \in DOMAIN history
  BY <1>1, <1>2, LatestIsRow
<1>4. history[last] \in Row
  BY <1>1, <1>3
<1>5. j \in Judgement
  BY <1>1, <1>4 DEF Judgement, Row, Kinds
<1>6. j.exp = RunOf[r] /\ j.at = clock + 1
  OBVIOUS
<1> HIDE DEF j
<1>7. Follows(history', history, j)
  BY <1>1, <1>2, <1>5, AppendedFollows
<1>8. HasNewest(history')
  BY <1>1, <1>5, <1>7, NewestOfAppended
<1>9. finding' \in [Runs -> Findings]
  <2>1. history' \in Seq(Row)
    BY <1>7 DEF Follows
  <2>2. QED
    BY <1>1, <1>2, <1>8, <2>1, RefreshedIsTyped
<1>10. QED
  BY <1>2, <1>5, <1>6, <1>7, <1>8, <1>9

LEMMA FollowsHasRows ==
  ASSUME NEW h \in Seq(Row), NEW g, NEW j, Follows(g, h, j)
  PROVE  g \in Seq(Row) /\ DOMAIN h \subseteq DOMAIN g
<1>1. g \in Seq(Row) /\ Len(g) = Len(h) + 1
  BY DEF Follows
<1>2. DOMAIN g = 1 .. Len(g) /\ DOMAIN h = 1 .. Len(h) /\ Len(h) \in Nat
  BY <1>1
<1>3. QED
  BY <1>1, <1>2

LEMMA StoreTypes ==
  ASSUME TypeInv, NEW v \in Evaluators, judging[v] # NoJudgement, NEW runs, NEW learn \in BOOLEAN,
         Store(v, runs, learn), UNCHANGED sync
  PROVE  TypeInv'
<1>1. /\ Follows(history', history, judging[v]) /\ HasNewest(history')
      /\ finding' \in [Runs -> Findings]
      /\ judging' \in [Evaluators -> Judgement \cup {NoJudgement}]
      /\ OutboxGrows
      /\ UNCHANGED <<clock, scan, ready, used>>
  BY StoreGrows, ZenonT(40)
<1>2. history \in Seq(Row)
  BY DEF TypeInv, TypeOK
<1>3. history' \in Seq(Row) /\ DOMAIN history \subseteq DOMAIN history'
  BY <1>1, <1>2, FollowsHasRows
<1>4. \A s \in Syncers : sync[s].todo \in Seq(DOMAIN outbox')
  BY <1>1, GrowingKeepsWork DEF OutboxGrows
<1>5. Delivering'
  BY <1>4 DEF Delivering, TypeInv
<1>6. TypeOK'
  BY <1>1, <1>3 DEF TypeInv, TypeOK, OutboxGrows
<1>7. QED
  BY <1>1, <1>5, <1>6 DEF TypeInv

LEMMA FinalizeTypes ==
  ASSUME TypeInv, Finalize
  PROVE  TypeInv'
<1> DEFINE seen == Evident(finding, judging[Analyzer].exp)
<1>1. Analyzer \in Evaluators /\ Supervisor \in Syncers
  BY MemoryAssumption DEF Syncers
<1>2. judging[Analyzer] # NoJudgement /\ Store(Analyzer, seen, TRUE) /\ Goto(Supervisor, "select")
  BY DEF Finalize, Goto
<1>3. /\ Follows(history', history, judging[Analyzer]) /\ HasNewest(history')
      /\ finding' \in [Runs -> Findings]
      /\ judging' \in [Evaluators -> Judgement \cup {NoJudgement}]
      /\ OutboxGrows
      /\ UNCHANGED <<clock, scan, ready, used>>
  BY <1>1, <1>2, StoreGrows
<1>4. history \in Seq(Row)
  BY DEF TypeInv, TypeOK
<1>5. history' \in Seq(Row) /\ DOMAIN history \subseteq DOMAIN history'
  BY <1>3, <1>4, FollowsHasRows
<1>6. "select" \in Labels
  BY DEF Labels
<1>7. sync' \in [Syncers -> Sync] /\ Delivering'
  BY <1>1, <1>2, <1>3, <1>6, GotoDelivers DEF OutboxGrows
<1>8. TypeOK'
  BY <1>3, <1>5, <1>7 DEF TypeInv, TypeOK, OutboxGrows
<1>9. QED
  BY <1>3, <1>7, <1>8 DEF TypeInv

(* Requests and crashes change what a syncer does, and count faults.        *)
LEMMA RequestTypes ==
  ASSUME TypeInv, UNCHANGED <<clock, judging, history, finding, outbox, ready>>,
         copies' \in [DOMAIN outbox -> Nat], sync' \in [Syncers -> Sync], Delivering',
         scan' \subseteq DOMAIN history, used' \in [Faults -> Nat]
  PROVE  TypeInv'
BY DEF TypeInv, TypeOK

LEMMA ListTypes ==
  ASSUME TypeInv, NEW s \in Syncers, List(s)
  PROVE  TypeInv'
<1>1. UNCHANGED <<clock, judging, history, finding, outbox, copies, scan, ready>>
  BY DEF List
<1>2. TypeOK
  BY DEF TypeInv
<1>3. sync[s].todo # <<>>
  BY WorkLeft DEF List
<1>4. \E label \in {"delivered", "post", "failed"} : Goto(s, label)
  BY DEF List
<1>5. sync' \in [Syncers -> Sync] /\ Delivering'
  BY <1>1, <1>3, <1>4, GotoDelivers DEF Labels
<1>6. used' \in [Faults -> Nat]
  <2>1. "malformed" \in Faults /\ "outage" \in Faults /\ used \in [Faults -> Nat]
    BY <1>2 DEF Faults, TypeOK
  <2>2. used' = used \/ Spend("malformed") \/ Spend("outage")
    BY DEF List
  <2>3. QED
    BY <1>2, <2>1, <2>2, SpendCounts
<1>7. copies' \in [DOMAIN outbox -> Nat] /\ scan' \subseteq DOMAIN history
  BY <1>1, <1>2 DEF TypeOK
<1>8. QED
  BY <1>1, <1>5, <1>6, <1>7, RequestTypes

(* A post stores a message at most once, and counts an outage when its      *)
(* answer is lost.                                                          *)
LEMMA PostPosts ==
  ASSUME TypeInv, NEW s \in Syncers, Post(s)
  PROVE  LET k == Head(sync[s].todo)
         IN  /\ k \in DOMAIN outbox
             /\ copies' \in [DOMAIN outbox -> Nat]
             /\ copies'[k] \in {copies[k], copies[k] + 1}
             /\ \A i \in DOMAIN outbox \ {k} : copies'[i] = copies[i]
             /\ \/ Goto(s, "delivered") /\ copies'[k] = copies[k] + 1
                \/ Goto(s, "failed")
             /\ used' \in [Faults -> Nat] /\ used'["malformed"] = used["malformed"]
             /\ sync[s].todo # <<>>
<1> DEFINE k == Head(sync[s].todo)
<1>1. k \in DOMAIN outbox /\ sync[s].todo # <<>>
  BY WorkLeft DEF Post
<1>2. TypeOK /\ copies \in [DOMAIN outbox -> Nat]
  BY DEF TypeInv, TypeOK
<1>3. \/ copies' = [copies EXCEPT ![k] = @ + 1] /\ Goto(s, "delivered") /\ used' = used
      \/ /\ Spend("outage")
         /\ copies' = [copies EXCEPT ![k] = @ + 1] \/ copies' = copies
         /\ Goto(s, "failed")
  BY DEF Post, Unanswered
<1>4. used' \in [Faults -> Nat] /\ used'["malformed"] = used["malformed"]
  <2>1. "outage" \in Faults /\ "malformed" \in Faults \ {"outage"} /\ used \in [Faults -> Nat]
    BY <1>2 DEF Faults, TypeOK
  <2>2. QED
    BY <1>2, <1>3, <2>1, SpendCounts
<1> HIDE DEF k
<1>5. copies[k] \in Nat
  BY <1>1, <1>2
<1>6. /\ copies' \in [DOMAIN outbox -> Nat]
      /\ copies'[k] \in {copies[k], copies[k] + 1}
      /\ \A i \in DOMAIN outbox \ {k} : copies'[i] = copies[i]
      /\ \/ Goto(s, "delivered") /\ copies'[k] = copies[k] + 1
         \/ Goto(s, "failed")
  <2>1. CASE copies' = [copies EXCEPT ![k] = @ + 1]
    BY <1>1, <1>2, <1>3, <1>5, <2>1
  <2>2. CASE copies' = copies /\ Goto(s, "failed")
    BY <1>1, <1>2, <1>5, <2>2
  <2>3. QED
    BY <1>3, <2>1, <2>2
<1>7. QED
  BY <1>1, <1>4, <1>6 DEF k

LEMMA PostTypes ==
  ASSUME TypeInv, NEW s \in Syncers, Post(s)
  PROVE  TypeInv'
<1>1. UNCHANGED <<clock, judging, history, finding, outbox, scan, ready>>
  BY DEF Post
<1>2. /\ copies' \in [DOMAIN outbox -> Nat] /\ used' \in [Faults -> Nat] /\ sync[s].todo # <<>>
      /\ \E label \in {"delivered", "failed"} : Goto(s, label)
  BY PostPosts
<1>3. sync' \in [Syncers -> Sync]
  BY <1>2, GotoMoves DEF Labels
<1>4. Delivering'
  BY <1>1, <1>2, GotoDelivers DEF Labels
<1>5. scan' \subseteq DOMAIN history
  BY <1>1 DEF TypeInv, TypeOK
<1>6. QED
  BY <1>1, <1>2, <1>3, <1>4, <1>5, RequestTypes

LEMMA SelectTypes ==
  ASSUME TypeInv, NEW s \in Syncers, Select(s)
  PROVE  TypeInv'
<1>1. UNCHANGED <<clock, judging, history, finding, outbox, copies, scan, ready, used>>
  BY DEF Select
<1>2. PICK todo \in Seq(DOMAIN outbox), label \in {"list", "check", "idle"} :
         /\ sync' = [sync EXCEPT ![s] = [at |-> label, todo |-> todo, init |-> sync[s].init]]
         /\ label = "list" => todo # <<>>
  BY SelectTakes
<1>3. sync[s].init \in BOOLEAN
  BY DEF TypeInv, TypeOK, Sync
<1>4. sync' \in [Syncers -> Sync] /\ Delivering'
  BY <1>1, <1>2, <1>3, WorkDelivers DEF Labels
<1>5. QED
  BY <1>1, <1>4 DEF TypeInv, TypeOK

LEMMA MarkTypes ==
  ASSUME TypeInv, NEW s \in Syncers, Mark(s)
  PROVE  TypeInv'
<1> DEFINE k == Head(sync[s].todo)
<1>1. UNCHANGED <<clock, judging, history, finding, copies, scan, ready, used>>
  BY DEF Mark
<1>2. PICK label \in {"list", "select", "idle"} :
         /\ sync' = [sync EXCEPT ![s] = [at |-> label, todo |-> Tail(sync[s].todo),
                                         init |-> sync[s].init]]
         /\ label = "list" => Tail(sync[s].todo) # <<>>
  BY MarkMarks
<1>3. OutboxMarked(k, s)
  BY MarkMarks
<1>4. sync[s].init \in BOOLEAN /\ Tail(sync[s].todo) \in Seq(DOMAIN outbox)
  BY WorkLeft DEF TypeInv, TypeOK, Sync, Mark
<1>5. outbox' \in Seq(Entry) /\ DOMAIN outbox' = DOMAIN outbox
  BY <1>3 DEF OutboxMarked
<1>6. sync' \in [Syncers -> Sync] /\ Delivering'
  BY <1>2, <1>4, <1>5, WorkDelivers DEF Labels
<1>7. QED
  BY <1>1, <1>5, <1>6 DEF TypeInv, TypeOK

LEMMA BackoffDue ==
  ASSUME TypeInv, NEW k \in DOMAIN outbox, BackoffEnds(k)
  PROVE  /\ outbox' \in Seq(Entry) /\ DOMAIN outbox' = DOMAIN outbox
         /\ \A i \in DOMAIN outbox : /\ outbox'[i].learning = outbox[i].learning
                                     /\ outbox'[i].state = outbox[i].state
<1>1. outbox \in [1 .. Len(outbox) -> Entry] /\ DOMAIN outbox = 1 .. Len(outbox) /\ Len(outbox) \in Nat
  BY DEF TypeInv, TypeOK
<1>2. outbox' = [outbox EXCEPT ![k] = [outbox[k] EXCEPT !.due = TRUE]]
  BY <1>1 DEF BackoffEnds
<1>3. outbox[k] \in Entry
  BY <1>1
<1> DEFINE entry == [outbox[k] EXCEPT !.due = TRUE]
<1>4. entry \in Entry /\ entry.learning = outbox[k].learning /\ entry.state = outbox[k].state
  BY <1>3 DEF Entry
<1> HIDE DEF entry
<1>5. outbox' = [outbox EXCEPT ![k] = entry]
  BY <1>2 DEF entry
<1>6. outbox' \in [1 .. Len(outbox) -> Entry]
  BY <1>1, <1>4, <1>5
<1>7. outbox' \in Seq(Entry) /\ DOMAIN outbox' = DOMAIN outbox
  BY <1>1, <1>6
<1>8. QED
  BY <1>1, <1>4, <1>5, <1>7

LEMMA BackoffTypes ==
  ASSUME TypeInv, NEW k \in DOMAIN outbox, BackoffEnds(k)
  PROVE  TypeInv'
<1>1. UNCHANGED <<clock, judging, history, finding, copies, sync, scan, ready, used>>
  BY DEF BackoffEnds
<1>2. outbox' \in Seq(Entry) /\ DOMAIN outbox' = DOMAIN outbox
  BY BackoffDue
<1>3. QED
  BY <1>1, <1>2 DEF TypeInv, TypeOK, Delivering

LEMMA EmptyWork == <<>> \in Seq(DOMAIN outbox)
OBVIOUS

LEMMA CrashTypes ==
  ASSUME TypeInv, NEW s \in Syncers, Crash(s)
  PROVE  TypeInv'
<1>1. /\ UNCHANGED <<clock, judging, history, finding, outbox, copies, ready>>
      /\ sync' = [sync EXCEPT ![s] = [at |-> "idle", todo |-> <<>>, init |-> FALSE]]
      /\ Spend("crash") /\ scan' \in {{}, scan}
  BY DEF Crash
<1>2. sync' \in [Syncers -> Sync] /\ Delivering'
  BY <1>1, EmptyWork, WorkDelivers DEF Labels
<1>3. TypeOK /\ "crash" \in Faults
  BY DEF TypeInv, Faults
<1>4. used' \in [Faults -> Nat]
  BY <1>1, <1>3, SpendCounts
<1>5. copies' \in [DOMAIN outbox -> Nat] /\ scan' \subseteq DOMAIN history
  BY <1>1, <1>3 DEF TypeOK
<1>6. QED
  BY <1>1, <1>2, <1>4, <1>5, RequestTypes

LEMMA CommandTypes ==
  ASSUME TypeInv, NEW label \in {"select", "scan"}, NEW init \in BOOLEAN, Command(label, init)
  PROVE  TypeInv'
<1>1. /\ UNCHANGED <<clock, judging, history, finding, outbox, copies, scan, ready, used>>
      /\ sync' = [sync EXCEPT ![Cli] = [at |-> label, todo |-> <<>>, init |-> init]]
  BY DEF Command
<1>2. Cli \in Syncers
  BY DEF Syncers
<1>3. sync' \in [Syncers -> Sync] /\ Delivering'
  BY <1>1, <1>2, EmptyWork, WorkDelivers DEF Labels
<1>4. QED
  BY <1>1, <1>3 DEF TypeInv, TypeOK

LEMMA BackfillTypes ==
  ASSUME TypeInv, Backfill
  PROVE  TypeInv'
<1>1. Cli \in Syncers /\ TypeOK /\ scan \subseteq DOMAIN history
  BY DEF Syncers, TypeInv, TypeOK
<1>2. UNCHANGED <<clock, judging, history, finding, used>>
  BY DEF Backfill, Scan, Insert, Check, Report
<1>3. Memorable \subseteq DOMAIN history
  BY DEF Memorable, Current
<1>4. CASE Insert
  <2>1. OutboxGrows
    BY <1>4, InsertGrows
  <2>2. \E label \in {"idle", "scan", "select"} : Goto(Cli, label)
    BY <1>4 DEF Insert
  <2>3. sync' \in [Syncers -> Sync] /\ Delivering'
    BY <1>1, <2>1, <2>2, GotoDelivers DEF Labels, OutboxGrows
  <2>4. scan' \subseteq DOMAIN history /\ ready' \subseteq DOMAIN history
    BY <1>4 DEF Insert, TypeInv, TypeOK
  <2>5. QED
    BY <1>2, <2>1, <2>3, <2>4, GrowingKeepsTypes
<1>5. CASE Scan \/ Check
  <2>1. UNCHANGED <<outbox, copies, ready>> /\ \E label \in {"insert", "report"} : Goto(Cli, label)
    BY <1>5 DEF Scan, Check
  <2>2. sync' \in [Syncers -> Sync] /\ Delivering'
    BY <1>1, <2>1, GotoDelivers DEF Labels
  <2>3. scan' \subseteq DOMAIN history
    BY <1>3, <1>5 DEF Scan, Check
  <2>4. QED
    BY <1>2, <2>1, <2>2, <2>3 DEF TypeInv, TypeOK
<1>6. CASE Report
  <2>1. UNCHANGED <<outbox, copies>> /\ scan' = {} /\ ready' \subseteq ready \cup scan
    BY <1>6 DEF Report
  <2>2. sync' = [sync EXCEPT ![Cli].at = "idle", ![Cli].init = FALSE] /\ sync \in [Syncers -> Sync]
    BY <1>1, <1>6 DEF Report, TypeOK
  <2>3. sync[Cli] \in Sync
    BY <1>1, <2>2
  <2>4. sync' = [sync EXCEPT ![Cli] = [[sync[Cli] EXCEPT !.at = "idle"] EXCEPT !.init = FALSE]]
    BY <1>1, <2>2, <2>3
  <2> DEFINE done == [[sync[Cli] EXCEPT !.at = "idle"] EXCEPT !.init = FALSE]
  <2>5. done \in Sync /\ done.at = "idle" /\ done.todo = sync[Cli].todo
    BY <2>3 DEF Sync, Labels
  <2> HIDE DEF done
  <2>6. sync' = [sync EXCEPT ![Cli] = done]
    BY <2>4 DEF done
  <2>7. sync' \in [Syncers -> Sync]
    BY <2>2, <2>5, <2>6
  <2>8. Delivering'
    BY <1>1, <2>1, <2>2, <2>5, <2>6 DEF Delivering, TypeInv
  <2>9. QED
    BY <1>1, <1>2, <2>1, <2>7, <2>8 DEF TypeInv, TypeOK
<1>7. QED
  BY <1>4, <1>5, <1>6 DEF Backfill

(* Every step keeps the type invariant.                                     *)
LEMMA TypeStep ==
  ASSUME TypeInv, [Next]_vars
  PROVE  TypeInv'
<1>1. CASE UNCHANGED vars
  BY <1>1 DEF vars, TypeInv, TypeOK, Delivering
<1>2. ASSUME NEW r \in Runs, StoreRun(r) PROVE TypeInv'
  <2>1. /\ finding' = Refreshed(history, finding, {r})
        /\ UNCHANGED <<clock, judging, history, outbox, copies, sync, scan, ready, used>>
    BY <1>2 DEF StoreRun
  <2>2. finding' \in [Runs -> Findings]
    BY <2>1, RefreshedIsTyped DEF TypeInv, TypeOK
  <2>3. QED
    BY <2>1, <2>2 DEF TypeInv, TypeOK, Delivering
<1>3. ASSUME NEW r \in Runs, Reevaluate(r) PROVE TypeInv'
  <2>1. UNCHANGED <<judging, outbox, copies, sync, scan, ready, used>> /\ clock' = clock + 1
    BY <1>3 DEF Reevaluate
  <2>2. PICK j \in Judgement : /\ Follows(history', history, j) /\ HasNewest(history')
                               /\ finding' \in [Runs -> Findings]
    BY <1>3, ReevaluateGrows
  <2>3. history' \in Seq(Row) /\ DOMAIN history \subseteq DOMAIN history'
    BY <2>2, FollowsHasRows DEF TypeInv, TypeOK
  <2>4. QED
    BY <2>1, <2>2, <2>3 DEF TypeInv, TypeOK, Delivering
<1>4. ASSUME NEW v \in Evaluators, NEW e \in Experiments, NEW kind \in Kinds, Judge(v, e, kind)
      PROVE  TypeInv'
  <2>1. UNCHANGED <<history, finding, outbox, copies, sync, scan, ready, used>> /\ clock' = clock + 1
        /\ judging' = [judging EXCEPT ![v] = [exp |-> e, by |-> v, at |-> clock + 1, kind |-> kind]]
    BY <1>4 DEF Judge
  <2>2. [exp |-> e, by |-> v, at |-> clock + 1, kind |-> kind] \in Judgement
    BY DEF Judgement, TypeInv, TypeOK
  <2>3. QED
    BY <2>1, <2>2 DEF TypeInv, TypeOK, Delivering
<1>5. ASSUME NEW v \in Evaluators, AddEvaluation(v) PROVE TypeInv'
  <2> DEFINE seen == Evident(finding, judging[v].exp)
             learn == seen # {}
  <2>1. judging[v] # NoJudgement /\ Store(v, seen, learn) /\ UNCHANGED sync
    BY <1>5 DEF AddEvaluation
  <2>2. learn \in BOOLEAN
    OBVIOUS
  <2> HIDE DEF seen, learn
  <2>3. QED
    BY <2>1, <2>2, StoreTypes
<1>6. ASSUME NEW v \in Evaluators, NEW r \in Runs, AddRunAndEvaluation(v, r) PROVE TypeInv'
  BY <1>6, StoreTypes DEF AddRunAndEvaluation
<1>7. CASE Finalize
  BY <1>7, FinalizeTypes
<1>8. ASSUME NEW s \in Syncers, Deliver(s) PROVE TypeInv'
  BY <1>8, SelectTypes, ListTypes, PostTypes, MarkTypes DEF Deliver
<1>9. ASSUME NEW s \in Syncers, Crash(s) PROVE TypeInv'
  BY <1>9, CrashTypes
<1>10. ASSUME NEW k \in DOMAIN outbox, BackoffEnds(k) PROVE TypeInv'
  BY <1>10, BackoffTypes
<1>11. CASE Commands
  BY <1>11, CommandTypes DEF Commands
<1>12. CASE Backfill
  BY <1>12, BackfillTypes
<1>13. QED
  BY <1>1, <1>2, <1>3, <1>4, <1>5, <1>6, <1>7, <1>8, <1>9, <1>10, <1>11, <1>12 DEF Next

LEMMA TypeInit == Init => TypeInv
<1> SUFFICES ASSUME Init PROVE TypeInv
  OBVIOUS
<1>1. HasNewest(history)
  BY DEF Init, HasNewest
<1>2. Delivering
  <2>1. \A s \in Syncers : sync[s].todo = <<>> /\ sync[s].at = "idle"
    BY DEF Init
  <2>2. QED
    BY <2>1, EmptyWork DEF Delivering
<1>3. sync \in [Syncers -> Sync]
  BY DEF Init, Sync, Labels
<1>4. copies \in [DOMAIN outbox -> Nat] /\ outbox \in Seq(Entry) /\ history \in Seq(Row)
  BY DEF Init
<1>5. QED
  BY <1>1, <1>2, <1>3, <1>4 DEF Init, TypeInv, TypeOK, Findings

LEMMA TypeInvHolds == Spec => []TypeInv
<1>1. Init => TypeInv
  BY TypeInit
<1>2. TypeInv /\ [Next]_vars => TypeInv'
  BY TypeStep
<1>3. QED
  BY <1>1, <1>2, PTL DEF Spec

(* Whatever fails, and however many judge and deliver, the history, the     *)
(* evidence, the outbox and the syncers are in the states the module names.  *)
THEOREM TypeCorrect == Spec => []TypeOK
<1>1. TypeInv => TypeOK
  BY DEF TypeInv
<1>2. QED
  BY <1>1, TypeInvHolds, PTL

-----------------------------------------------------------------------------
(* Verdicts and evidence.                                                   *)

(* A judgement is appended and the evidence of some runs of its experiment  *)
(* is refreshed, of none only if none has evidence.                         *)
Rejudged ==
  \E j \in Judgement, runs \in SUBSET Runs :
     /\ Follows(history', history, j)
     /\ finding' = Refreshed(history', finding, runs)
     /\ runs \subseteq RunsOf(j.exp)
     /\ runs = {} => Evident(finding, j.exp) = {}

(* A run is stored, perhaps again.                                          *)
Restored ==
  \E r \in Runs : history' = history /\ finding' = Refreshed(history, finding, {r})

(* What can become of the history and of the evidence.                      *)
LEMMA HistorySteps ==
  ASSUME TypeInv, [Next]_vars
  PROVE  UNCHANGED <<history, finding>> \/ Rejudged \/ Restored
<1>1. CASE UNCHANGED vars
  BY <1>1 DEF vars
<1>2. ASSUME NEW r \in Runs, StoreRun(r) PROVE Restored
  BY <1>2 DEF StoreRun, Restored
<1>3. ASSUME NEW r \in Runs, Reevaluate(r) PROVE Rejudged
  <2>1. PICK j \in Judgement : /\ j.exp = RunOf[r] /\ finding' = Refreshed(history', finding, {r})
                               /\ Follows(history', history, j)
    BY <1>3, ReevaluateGrows
  <2>2. {r} \subseteq RunsOf(j.exp) /\ {r} # {} /\ {r} \in SUBSET Runs
    BY <2>1 DEF RunsOf
  <2>3. QED
    BY <2>1, <2>2 DEF Rejudged
<1>4. ASSUME NEW v \in Evaluators, judging[v] # NoJudgement, NEW learn \in BOOLEAN,
             Store(v, Evident(finding, judging[v].exp), learn)
      PROVE  Rejudged
  <2> DEFINE seen == Evident(finding, judging[v].exp)
  <2>1. seen \subseteq RunsOf(judging[v].exp) /\ seen \in SUBSET Runs
    BY DEF Evident, RunsOf
  <2>2. /\ judging[v] \in Judgement /\ Follows(history', history, judging[v])
        /\ finding' = Refreshed(history', finding, seen)
    BY <1>4, StoreGrows
  <2> HIDE DEF seen
  <2>3. seen = {} => Evident(finding, judging[v].exp) = {}
    BY DEF seen
  <2>4. QED
    BY <2>1, <2>2, <2>3 DEF Rejudged
<1>5. ASSUME NEW v \in Evaluators, AddEvaluation(v) PROVE Rejudged
  <2> DEFINE learn == Evident(finding, judging[v].exp) # {}
  <2>1. learn \in BOOLEAN
    OBVIOUS
  <2>2. judging[v] # NoJudgement /\ Store(v, Evident(finding, judging[v].exp), learn)
    BY <1>5 DEF AddEvaluation
  <2> HIDE DEF learn
  <2>3. QED
    BY <2>1, <2>2, <1>4
<1>6. ASSUME NEW v \in Evaluators, NEW r \in Runs, AddRunAndEvaluation(v, r) PROVE Rejudged
  <2>1. judging[v] # NoJudgement /\ RunOf[r] = judging[v].exp /\ Store(v, {r}, TRUE)
    BY <1>6 DEF AddRunAndEvaluation
  <2>2. /\ judging[v] \in Judgement /\ Follows(history', history, judging[v])
        /\ finding' = Refreshed(history', finding, {r})
    BY <2>1, StoreGrows
  <2>3. {r} \subseteq RunsOf(judging[v].exp) /\ {r} # {} /\ {r} \in SUBSET Runs
    BY <2>1 DEF RunsOf
  <2>4. QED
    BY <2>2, <2>3 DEF Rejudged
<1>7. CASE Finalize
  BY <1>4, <1>7, MemoryAssumption DEF Finalize
<1>8. ASSUME NEW s \in Syncers, Deliver(s) \/ Crash(s) PROVE UNCHANGED <<history, finding>>
  BY <1>8 DEF Deliver, Select, List, Post, Mark, Crash
<1>9. CASE Commands \/ Backfill \/ \E k \in DOMAIN outbox : BackoffEnds(k)
  BY <1>9 DEF Commands, Command, Backfill, Scan, Insert, Check, Report, BackoffEnds
<1>10. ASSUME NEW v \in Evaluators, NEW e \in Experiments, NEW kind \in Kinds, Judge(v, e, kind)
       PROVE  UNCHANGED <<history, finding>>
  BY <1>10 DEF Judge
<1>11. QED
  BY <1>1, <1>2, <1>3, <1>5, <1>6, <1>7, <1>8, <1>9, <1>10 DEF Next

(* The judgements of row i's evaluator on its experiment.                   *)
GroupOf(h, i) == {k \in DOMAIN h : h[k].exp = h[i].exp /\ h[k].by = h[i].by}

RevisedIn(h) ==
  \A i \in DOMAIN h :
     /\ h[i].current <=> (\A k \in GroupOf(h, i) : k <= i)
     /\ h[i].sequence = Cardinality({k \in GroupOf(h, i) : k < i})

LEMMA AppendedIsRevised ==
  ASSUME NEW h \in Seq(Row), NEW j \in Judgement, NEW g, Follows(g, h, j), RevisedIn(h)
  PROVE  RevisedIn(g)
<1> DEFINE n == Len(h) + 1
           mine == Superseded(h, j)
<1>1. DOMAIN g = 1 .. n /\ DOMAIN h = 1 .. Len(h) /\ Len(h) \in Nat /\ n \in Nat
  BY DEF Follows
<1>2. \A i \in DOMAIN h : /\ g[i].exp = h[i].exp /\ g[i].by = h[i].by /\ g[i].sequence = h[i].sequence
                          /\ g[i].current = (h[i].current /\ i \notin mine)
  BY DEF Follows
<1>3. g[n].exp = j.exp /\ g[n].by = j.by /\ g[n].sequence = Cardinality(mine) /\ g[n].current
  BY DEF Follows
<1>4. mine = {k \in DOMAIN h : h[k].exp = j.exp /\ h[k].by = j.by}
  BY DEF Superseded
<1>5. \A i \in DOMAIN h : i < n /\ i \in Nat
  BY <1>1
<1>6. n \in DOMAIN g /\ n \notin DOMAIN h /\ DOMAIN g = DOMAIN h \cup {n}
  BY <1>1
<1> HIDE DEF n, mine
<1>7. ASSUME NEW i \in DOMAIN h
      PROVE  /\ g[i].current <=> (\A k \in GroupOf(g, i) : k <= i)
             /\ g[i].sequence = Cardinality({k \in GroupOf(g, i) : k < i})
  <2>1. \A k \in DOMAIN h : k \in GroupOf(g, i) <=> k \in GroupOf(h, i)
    BY <1>2, <1>6 DEF GroupOf
  <2>2. n \in GroupOf(g, i) <=> i \in mine
    BY <1>2, <1>3, <1>4, <1>6 DEF GroupOf
  <2>3. GroupOf(g, i) \subseteq DOMAIN h \cup {n} /\ GroupOf(h, i) \subseteq DOMAIN h
    BY <1>6 DEF GroupOf
  <2>4. {k \in GroupOf(g, i) : k < i} = {k \in GroupOf(h, i) : k < i}
    BY <1>1, <1>5, <2>1, <2>3
  <2>5. (\A k \in GroupOf(g, i) : k <= i) <=> (\A k \in GroupOf(h, i) : k <= i) /\ i \notin mine
    <3>1. ~(n <= i)
      BY <1>1, <1>5
    <3>2. CASE i \in mine
      BY <2>2, <3>1, <3>2
    <3>3. CASE i \notin mine
      <4>1. GroupOf(g, i) = GroupOf(h, i)
        BY <2>1, <2>2, <2>3, <3>3
      <4>2. QED
        BY <4>1, <3>3
    <3>4. QED
      BY <3>2, <3>3
  <2>6. /\ h[i].current <=> (\A k \in GroupOf(h, i) : k <= i)
        /\ h[i].sequence = Cardinality({k \in GroupOf(h, i) : k < i})
    BY DEF RevisedIn
  <2>7. g[i].sequence = Cardinality({k \in GroupOf(g, i) : k < i})
    BY <1>2, <2>4, <2>6
  <2>8. g[i].current = (h[i].current /\ i \notin mine)
    BY <1>2
  <2>9. QED
    BY <2>5, <2>6, <2>7, <2>8
<1>8. g[n].current /\ (\A k \in GroupOf(g, n) : k <= n)
  <2>1. \A k \in GroupOf(g, n) : k \in DOMAIN h \/ k = n
    BY <1>6 DEF GroupOf
  <2>2. QED
    BY <1>1, <1>3, <1>5, <2>1
<1>9. {k \in GroupOf(g, n) : k < n} = mine
  <2>1. \A k \in DOMAIN h : k \in GroupOf(g, n) <=> k \in mine
    BY <1>2, <1>3, <1>4, <1>6 DEF GroupOf
  <2>2. GroupOf(g, n) \subseteq DOMAIN h \cup {n} /\ mine \subseteq DOMAIN h
    BY <1>4, <1>6 DEF GroupOf
  <2>3. ~(n < n)
    BY <1>1
  <2>4. QED
    BY <1>5, <2>1, <2>2, <2>3
<1>10. g[n].sequence = Cardinality({k \in GroupOf(g, n) : k < n})
  BY <1>3, <1>9
<1>11. QED
  BY <1>6, <1>7, <1>8, <1>10 DEF RevisedIn

(* The evaluator's last judgement on an experiment stays its current one,   *)
(* and counts those before it, in whatever order judgements are stored, of  *)
(* whichever evaluator and by whichever path (_append_evaluation).          *)
THEOREM VerdictsStayRevised == Spec => []VerdictsAreRevised
<1>1. VerdictsAreRevised <=> RevisedIn(history)
  BY DEF VerdictsAreRevised, RevisedIn, GroupOf
<1>2. Init => VerdictsAreRevised
  BY DEF Init, VerdictsAreRevised
<1>3. TypeInv /\ VerdictsAreRevised /\ [Next]_vars => VerdictsAreRevised'
  <2> SUFFICES ASSUME TypeInv, RevisedIn(history), [Next]_vars PROVE RevisedIn(history')
    BY <1>1 DEF VerdictsAreRevised, RevisedIn, GroupOf
  <2>1. history \in Seq(Row)
    BY DEF TypeInv, TypeOK
  <2>2. CASE history' = history
    BY <2>2
  <2>3. CASE Rejudged
    BY <2>1, <2>3, AppendedIsRevised DEF Rejudged
  <2>4. QED
    BY <2>2, <2>3, HistorySteps DEF Restored
<1>4. QED
  BY <1>2, <1>3, TypeInvHolds, PTL DEF Spec

LEMMA RejudgedShows ==
  ASSUME TypeInv, LatestVerdictInEvidence, Rejudged
  PROVE  LatestVerdictInEvidence'
<1>1. PICK j \in Judgement, runs \in SUBSET Runs :
         /\ Follows(history', history, j)
         /\ finding' = Refreshed(history', finding, runs)
         /\ runs \subseteq RunsOf(j.exp)
         /\ runs = {} => Evident(finding, j.exp) = {}
  BY DEF Rejudged
<1>2. history \in Seq(Row) /\ finding \in [Runs -> Findings]
  BY DEF TypeInv, TypeOK
<1>3. \A r \in Runs : finding'[r] = IF r \in runs THEN Latest(history', RunOf[r]) ELSE finding[r]
  BY <1>1 DEF Refreshed
<1> SUFFICES ASSUME NEW e \in Experiments, Evident(finding', e) # {}
             PROVE  \E r \in RunsOf(e) : finding'[r] = Latest(history', e)
  BY DEF LatestVerdictInEvidence
<1>4. CASE e # j.exp
  <2>1. \A r \in RunsOf(e) : r \in Runs /\ finding'[r] = finding[r]
    BY <1>1, <1>3, <1>4 DEF RunsOf
  <2>2. Evident(finding', e) = Evident(finding, e)
    BY <2>1 DEF Evident
  <2>3. Latest(history', e) = Latest(history, e)
    BY <1>1, <1>2, <1>4, LatestElsewhere
  <2>4. QED
    BY <2>1, <2>2, <2>3 DEF LatestVerdictInEvidence
<1>5. CASE e = j.exp /\ runs # {}
  <2>1. PICK r \in runs : r \in Runs /\ RunOf[r] = e
    BY <1>1, <1>5 DEF RunsOf
  <2>2. finding'[r] = Latest(history', e)
    BY <1>3, <2>1
  <2>3. r \in RunsOf(e)
    BY <2>1 DEF RunsOf
  <2>4. QED
    BY <2>2, <2>3
<1>6. CASE e = j.exp /\ runs = {}
  <2>1. \A r \in RunsOf(e) : r \in Runs /\ finding'[r] = finding[r]
    BY <1>3, <1>6 DEF RunsOf
  <2>2. Evident(finding', e) = Evident(finding, e)
    BY <2>1 DEF Evident
  <2>3. QED
    BY <1>1, <1>6, <2>2
<1>7. QED
  BY <1>4, <1>5, <1>6

LEMMA RestoredShows ==
  ASSUME TypeInv, LatestVerdictInEvidence, Restored
  PROVE  LatestVerdictInEvidence'
<1>1. PICK r \in Runs : history' = history /\ finding' = Refreshed(history, finding, {r})
  BY DEF Restored
<1>2. \A q \in Runs : finding'[q] = IF q = r THEN Latest(history, RunOf[q]) ELSE finding[q]
  BY <1>1 DEF Refreshed
<1> SUFFICES ASSUME NEW e \in Experiments, Evident(finding', e) # {}
             PROVE  \E q \in RunsOf(e) : finding'[q] = Latest(history', e)
  BY DEF LatestVerdictInEvidence
<1>3. CASE RunOf[r] = e
  <2>1. r \in RunsOf(e) /\ finding'[r] = Latest(history', e)
    BY <1>1, <1>2, <1>3 DEF RunsOf
  <2>2. QED
    BY <2>1
<1>4. CASE RunOf[r] # e
  <2>1. \A q \in RunsOf(e) : q \in Runs /\ finding'[q] = finding[q]
    BY <1>2, <1>4 DEF RunsOf
  <2>2. Evident(finding', e) = Evident(finding, e)
    BY <2>1 DEF Evident
  <2>3. QED
    BY <1>1, <2>1, <2>2 DEF LatestVerdictInEvidence
<1>5. QED
  BY <1>3, <1>4

(* An experiment whose runs have evidence shows its latest verdict on one   *)
(* of them: after add_run, after every path that stores a judgement, and    *)
(* after a repair (each ends in _refresh_run_evidence).                     *)
THEOREM EvidenceShowsLatest == Spec => []LatestVerdictInEvidence
<1>1. Init => LatestVerdictInEvidence
  BY DEF Init, LatestVerdictInEvidence, Evident, RunsOf
<1>2. TypeInv /\ LatestVerdictInEvidence /\ [Next]_vars => LatestVerdictInEvidence'
  <2> SUFFICES ASSUME TypeInv, LatestVerdictInEvidence, [Next]_vars PROVE LatestVerdictInEvidence'
    OBVIOUS
  <2>1. CASE UNCHANGED <<history, finding>>
    BY <2>1 DEF LatestVerdictInEvidence
  <2>2. QED
    BY <2>1, HistorySteps, RejudgedShows, RestoredShows
<1>3. QED
  BY <1>1, <1>2, TypeInvHolds, PTL DEF Spec

-----------------------------------------------------------------------------
(* Delivery.                                                                *)

(* A message is at the provider before its row is marked delivered.         *)
StoredBeforeMarked ==
  \A s \in Syncers : sync[s].at = "delivered" => copies[Head(sync[s].todo)] > 0

(* Syncers that have not found learning k and are about to post it.         *)
Posting(s, k) == IF sync[s].at = "post" /\ Head(sync[s].todo) = k THEN 1 ELSE 0

(* A copy that is about to be posted counts already.                        *)
PostsBounded ==
  \A k \in DOMAIN outbox :
     copies[k] + Posting(Supervisor, k) + Posting(Cli, k) <= 2 + used["malformed"]

DeliveryInv == DeliveredIsStored /\ StoredBeforeMarked /\ PostsBounded

(* Steps after which no row is nearer to the provider than before.          *)
Quiet ==
  /\ \A k \in DOMAIN outbox :
        /\ k \in DOMAIN outbox' /\ outbox'[k].learning = outbox[k].learning
        /\ outbox'[k].state = outbox[k].state /\ copies'[k] = copies[k]
  /\ \A k \in DOMAIN outbox' \ DOMAIN outbox : outbox'[k].state = "pending" /\ copies'[k] = 0
  /\ \A s \in Syncers : sync'[s] = sync[s] \/ sync'[s].at \notin {"post", "delivered"}
  /\ used'["malformed"] = used["malformed"]

LEMMA QuietSteps ==
  ASSUME TypeInv, [Next]_vars
  PROVE  Quiet \/ \E s \in Syncers : List(s) \/ Post(s) \/ Mark(s)
<1>1. TypeOK /\ sync \in [Syncers -> Sync]
  BY DEF TypeInv, TypeOK
<1>2. ASSUME OutboxGrows, used' = used,
             \A s \in Syncers : sync'[s] = sync[s] \/ sync'[s].at \notin {"post", "delivered"}
      PROVE  Quiet
  BY <1>2 DEF Quiet, OutboxGrows
<1>3. ASSUME NEW s \in Syncers, NEW label \in Labels \ {"post", "delivered"}, Goto(s, label)
      PROVE  \A t \in Syncers : sync'[t] = sync[t] \/ sync'[t].at \notin {"post", "delivered"}
  BY <1>3, GotoMoves
<1>4. ASSUME NEW s \in Syncers, NEW label, NEW todo, NEW init, label \notin {"post", "delivered"},
             sync' = [sync EXCEPT ![s] = [at |-> label, todo |-> todo, init |-> init]]
      PROVE  \A t \in Syncers : sync'[t] = sync[t] \/ sync'[t].at \notin {"post", "delivered"}
  BY <1>1, <1>4
<1>5. ASSUME NEW v \in Evaluators, judging[v] # NoJudgement, NEW runs, NEW learn \in BOOLEAN,
             Store(v, runs, learn), UNCHANGED sync
      PROVE  Quiet
  BY <1>2, <1>5, StoreGrows
<1>6. ASSUME UNCHANGED <<outbox, copies, sync, used>> PROVE Quiet
  BY <1>1, <1>2, <1>6, UnchangedGrows
<1>7. CASE UNCHANGED vars
  BY <1>6, <1>7 DEF vars
<1>8. ASSUME NEW r \in Runs, StoreRun(r) \/ Reevaluate(r) PROVE Quiet
  BY <1>6, <1>8 DEF StoreRun, Reevaluate
<1>9. ASSUME NEW v \in Evaluators, NEW e \in Experiments, NEW kind \in Kinds, Judge(v, e, kind)
      PROVE  Quiet
  BY <1>6, <1>9 DEF Judge
<1>10. ASSUME NEW v \in Evaluators, AddEvaluation(v) PROVE Quiet
  <2> DEFINE seen == Evident(finding, judging[v].exp)
             learn == seen # {}
  <2>1. judging[v] # NoJudgement /\ Store(v, seen, learn) /\ UNCHANGED sync
    BY <1>10 DEF AddEvaluation
  <2>2. learn \in BOOLEAN
    OBVIOUS
  <2> HIDE DEF seen, learn
  <2>3. QED
    BY <2>1, <2>2, <1>5
<1>11. ASSUME NEW v \in Evaluators, NEW r \in Runs, AddRunAndEvaluation(v, r) PROVE Quiet
  BY <1>5, <1>11 DEF AddRunAndEvaluation
<1>12. CASE Finalize
  <2>1. Analyzer \in Evaluators /\ Supervisor \in Syncers /\ "select" \in Labels \ {"post", "delivered"}
    BY MemoryAssumption DEF Syncers, Labels
  <2> DEFINE seen == Evident(finding, judging[Analyzer].exp)
  <2>2. judging[Analyzer] # NoJudgement /\ Store(Analyzer, seen, TRUE) /\ Goto(Supervisor, "select")
    BY <1>12 DEF Finalize, Goto
  <2> HIDE DEF seen
  <2>3. OutboxGrows /\ used' = used
    BY <2>1, <2>2, StoreGrows
  <2>4. QED
    BY <1>2, <1>3, <2>1, <2>2, <2>3
<1>13. ASSUME NEW s \in Syncers, Select(s) PROVE Quiet
  <2>1. UNCHANGED <<outbox, copies, used>>
    BY <1>13 DEF Select
  <2>2. PICK todo \in Seq(DOMAIN outbox), label \in {"list", "check", "idle"} :
           sync' = [sync EXCEPT ![s] = [at |-> label, todo |-> todo, init |-> sync[s].init]]
    BY <1>13, SelectTakes
  <2>3. OutboxGrows
    BY <1>1, <2>1, UnchangedGrows
  <2>4. \A t \in Syncers : sync'[t] = sync[t] \/ sync'[t].at \notin {"post", "delivered"}
    BY <1>4, <2>2
  <2>5. QED
    BY <1>2, <2>1, <2>3, <2>4
<1>14. ASSUME NEW s \in Syncers, Crash(s) PROVE Quiet
  <2>1. /\ UNCHANGED <<outbox, copies>> /\ Spend("crash")
        /\ sync' = [sync EXCEPT ![s] = [at |-> "idle", todo |-> <<>>, init |-> FALSE]]
    BY <1>14 DEF Crash
  <2>2. used'["malformed"] = used["malformed"]
    BY <1>1, <2>1, SpendCounts DEF Faults
  <2>3. \A t \in Syncers : sync'[t] = sync[t] \/ sync'[t].at \notin {"post", "delivered"}
    BY <1>4, <2>1
  <2>4. QED
    BY <2>1, <2>2, <2>3 DEF Quiet
<1>15. ASSUME NEW k \in DOMAIN outbox, BackoffEnds(k) PROVE Quiet
  <2>1. UNCHANGED <<copies, sync, used>>
    BY <1>15 DEF BackoffEnds
  <2>2. /\ DOMAIN outbox' = DOMAIN outbox
        /\ \A i \in DOMAIN outbox : /\ outbox'[i].learning = outbox[i].learning
                                    /\ outbox'[i].state = outbox[i].state
    BY <1>15, BackoffDue
  <2>3. QED
    BY <2>1, <2>2 DEF Quiet
<1>16. ASSUME NEW label \in {"select", "scan"}, NEW init, Command(label, init) PROVE Quiet
  <2>1. /\ UNCHANGED <<outbox, copies, used>> /\ Cli \in Syncers
        /\ sync' = [sync EXCEPT ![Cli] = [at |-> label, todo |-> <<>>, init |-> init]]
    BY <1>16 DEF Command, Syncers
  <2>2. \A t \in Syncers : sync'[t] = sync[t] \/ sync'[t].at \notin {"post", "delivered"}
    BY <1>4, <2>1
  <2>3. QED
    BY <1>1, <1>2, <2>1, <2>2, UnchangedGrows
<1>17. CASE Backfill
  <2>1. Cli \in Syncers /\ used' = used
    BY <1>17 DEF Syncers, Backfill, Scan, Insert, Check, Report
  <2>2. OutboxGrows
    BY <1>1, <1>17, UnchangedGrows, InsertGrows DEF Backfill, Scan, Check, Report
  <2>3. CASE Scan \/ Insert \/ Check
    <3>1. \E label \in {"insert", "idle", "scan", "select", "report"} : Goto(Cli, label)
      BY <2>3 DEF Scan, Insert, Check
    <3>2. QED
      BY <1>2, <1>3, <2>1, <2>2, <3>1 DEF Labels
  <2>4. CASE Report
    <3>1. sync' = [sync EXCEPT ![Cli] = [[sync[Cli] EXCEPT !.at = "idle"] EXCEPT !.init = FALSE]]
      BY <1>1, <2>1, <2>4 DEF Report
    <3>2. [[sync[Cli] EXCEPT !.at = "idle"] EXCEPT !.init = FALSE].at = "idle"
      BY <1>1, <2>1 DEF Sync
    <3>3. \A t \in Syncers : sync'[t] = sync[t] \/ sync'[t].at \notin {"post", "delivered"}
      BY <1>1, <2>1, <3>1, <3>2
    <3>4. QED
      BY <1>2, <2>1, <2>2, <3>3
  <2>5. QED
    BY <1>17, <2>3, <2>4 DEF Backfill
<1>18. QED
  BY <1>7, <1>8, <1>9, <1>10, <1>11, <1>12, <1>13, <1>14, <1>15, <1>16, <1>17
     DEF Next, Deliver, Commands

LEMMA PostingIsNumber ==
  ASSUME NEW s, NEW k
  PROVE  Posting(s, k) \in {0, 1} /\ Posting(s, k)' \in {0, 1}
BY DEF Posting

LEMMA QuietDelivers ==
  ASSUME TypeInv, TypeInv', DeliveryInv, Quiet
  PROVE  DeliveryInv'
<1>1. /\ copies \in [DOMAIN outbox -> Nat] /\ copies' \in [DOMAIN outbox' -> Nat]
      /\ used["malformed"] \in Nat
      /\ Supervisor \in Syncers /\ Cli \in Syncers
  BY DEF TypeInv, TypeOK, Faults, Syncers
<1>2. DeliveredIsStored'
  BY <1>1 DEF DeliveryInv, DeliveredIsStored, Quiet
<1>3. StoredBeforeMarked'
  <2> SUFFICES ASSUME NEW s \in Syncers, sync'[s].at = "delivered"
               PROVE  copies'[Head(sync'[s].todo)] > 0
    BY DEF StoredBeforeMarked
  <2>1. sync'[s] = sync[s]
    BY DEF Quiet
  <2>2. Head(sync[s].todo) \in DOMAIN outbox /\ copies[Head(sync[s].todo)] > 0
    BY <2>1, WorkLeft DEF DeliveryInv, StoredBeforeMarked
  <2>3. QED
    BY <2>1, <2>2 DEF Quiet
<1>4. PostsBounded'
  <2> SUFFICES ASSUME NEW k \in DOMAIN outbox'
               PROVE  copies'[k] + Posting(Supervisor, k)' + Posting(Cli, k)' <= 2 + used'["malformed"]
    BY DEF PostsBounded
  <2>1. used'["malformed"] = used["malformed"]
    BY DEF Quiet
  <2>2. \A s \in Syncers : Posting(s, k)' \in {0, 1} /\ Posting(s, k) \in {0, 1}
    BY PostingIsNumber
  <2>3. CASE k \in DOMAIN outbox
    <3>1. copies'[k] = copies[k] /\ copies[k] \in Nat
      BY <1>1, <2>3 DEF Quiet
    <3>2. \A s \in Syncers : Posting(s, k)' <= Posting(s, k)
      <4> SUFFICES ASSUME NEW s \in Syncers PROVE Posting(s, k)' <= Posting(s, k)
        OBVIOUS
      <4>1. sync'[s] = sync[s] \/ sync'[s].at # "post"
        BY DEF Quiet
      <4>2. QED
        BY <4>1 DEF Posting
    <3>3. copies[k] + Posting(Supervisor, k) + Posting(Cli, k) <= 2 + used["malformed"]
      BY <2>3 DEF DeliveryInv, PostsBounded
    <3>4. QED
      BY <1>1, <2>1, <2>2, <3>1, <3>2, <3>3
  <2>4. CASE k \notin DOMAIN outbox
    <3>1. copies'[k] = 0
      BY <2>4 DEF Quiet
    <3>2. QED
      BY <1>1, <2>1, <2>2, <3>1
  <2>5. QED
    BY <2>3, <2>4
<1>5. QED
  BY <1>2, <1>3, <1>4 DEF DeliveryInv

LEMMA PostingOfOne ==
  ASSUME NEW s \in Syncers, NEW k, \A t \in Syncers \ {s} : sync'[t] = sync[t]
  PROVE  (Posting(Supervisor, k) + Posting(Cli, k))' - Posting(s, k)'
           = (Posting(Supervisor, k) + Posting(Cli, k)) - Posting(s, k)
<1>1. s = Supervisor \/ s = Cli
  BY DEF Syncers
<1>2. Supervisor # Cli /\ Supervisor \in Syncers /\ Cli \in Syncers
  BY MemoryAssumption DEF Syncers
<1>3. \A t \in Syncers \ {s} : Posting(t, k)' = Posting(t, k)
  BY DEF Posting
<1>4. \A t \in Syncers : Posting(t, k) \in {0, 1} /\ Posting(t, k)' \in {0, 1}
  BY PostingIsNumber
<1>5. QED
  BY <1>1, <1>2, <1>3, <1>4

(* A syncer that lists posts only what it did not find, or after a          *)
(* malformed listing.                                                       *)
LEMMA ListDelivers ==
  ASSUME TypeInv, DeliveryInv, NEW s \in Syncers, List(s)
  PROVE  DeliveryInv'
<1> DEFINE k0 == Head(sync[s].todo)
           total(k) == Posting(Supervisor, k) + Posting(Cli, k)
<1>1. sync[s].at = "list" /\ UNCHANGED <<outbox, copies>>
  BY DEF List
<1>2. k0 \in DOMAIN outbox
  BY <1>1, WorkLeft
<1>3. TypeOK /\ copies \in [DOMAIN outbox -> Nat] /\ used["malformed"] \in Nat
  BY DEF TypeInv, TypeOK, Faults
<1>4. PICK label \in {"delivered", "post", "failed"} :
         /\ Goto(s, label)
         /\ \/ label = "delivered" /\ Found(k0) /\ used' = used
            \/ label = "post" /\ ~Found(k0) /\ used' = used
            \/ label = "post" /\ Spend("malformed")
            \/ label = "failed" /\ Spend("outage")
  BY DEF List
<1>5. /\ sync'[s].at = label /\ sync'[s].todo = sync[s].todo
      /\ \A t \in Syncers \ {s} : sync'[t] = sync[t]
  BY <1>4, GotoMoves DEF Labels
<1>6. /\ label = "post" /\ Found(k0) => used'["malformed"] = used["malformed"] + 1
      /\ used'["malformed"] \in {used["malformed"], used["malformed"] + 1}
  <2>1. CASE used' = used
    BY <1>3, <1>4, <2>1, SpendCounts DEF Faults
  <2>2. CASE label = "post" /\ Spend("malformed")
    BY <1>3, <2>2, SpendCounts DEF Faults
  <2>3. CASE label = "failed" /\ Spend("outage")
    BY <1>3, <2>3, SpendCounts DEF Faults
  <2>4. CASE label = "post" /\ ~Found(k0) /\ used' = used
    BY <1>3, <2>4
  <2>5. QED
    BY <1>4, <2>1, <2>2, <2>3, <2>4
<1>7. DeliveredIsStored'
  BY <1>1 DEF DeliveryInv, DeliveredIsStored
<1>8. StoredBeforeMarked'
  <2> SUFFICES ASSUME NEW t \in Syncers, sync'[t].at = "delivered"
               PROVE  copies'[Head(sync'[t].todo)] > 0
    BY DEF StoredBeforeMarked
  <2>1. CASE t = s
    BY <1>1, <1>4, <1>5, <2>1 DEF Found
  <2>2. CASE t # s
    BY <1>1, <1>5, <2>2 DEF DeliveryInv, StoredBeforeMarked
  <2>3. QED
    BY <2>1, <2>2
<1>9. PostsBounded'
  <2> SUFFICES ASSUME NEW k \in DOMAIN outbox
               PROVE  copies[k] + (Posting(Supervisor, k) + Posting(Cli, k))' <= 2 + used'["malformed"]
    <3>1. \A k : Posting(Supervisor, k)' \in {0, 1} /\ Posting(Cli, k)' \in {0, 1}
      BY PostingIsNumber
    <3>2. QED
      BY <1>1, <1>3, <1>6, <3>1 DEF PostsBounded
  <2>1. copies[k] \in Nat /\ \A t \in Syncers : Posting(t, k) \in {0, 1} /\ Posting(t, k)' \in {0, 1}
    BY <1>3, PostingIsNumber
  <2>2. Supervisor \in Syncers /\ Cli \in Syncers
    BY DEF Syncers
  <2>3. copies[k] + total(k) <= 2 + used["malformed"]
    BY <1>3, <2>1, <2>2 DEF DeliveryInv, PostsBounded
  <2>4. Posting(s, k) = 0
    BY <1>1 DEF Posting
  <2>5. total(k)' - Posting(s, k)' = total(k)
    BY <1>5, <2>1, <2>2, <2>4, PostingOfOne
  <2>6. Posting(s, k)' = 1 => label = "post" /\ k = k0
    BY <1>5 DEF Posting
  <2>7. CASE Posting(s, k)' = 0
    <3>1. total(k)' = total(k)
      BY <2>1, <2>2, <2>5, <2>7
    <3>2. QED
      BY <1>3, <1>6, <2>1, <2>2, <2>3, <3>1
  <2>8. CASE Posting(s, k)' = 1 /\ Found(k0)
    <3>1. total(k)' = total(k) + 1
      BY <2>1, <2>2, <2>5, <2>8
    <3>2. used'["malformed"] = used["malformed"] + 1
      BY <1>6, <2>6, <2>8
    <3>3. QED
      BY <1>3, <2>1, <2>2, <2>3, <3>1, <3>2
  <2>9. CASE Posting(s, k)' = 1 /\ ~Found(k0)
    <3>1. copies[k] = 0
      BY <2>1, <2>6, <2>9 DEF Found
    <3>2. QED
      BY <1>3, <1>6, <2>1, <2>2, <3>1
  <2>10. QED
    BY <2>1, <2>7, <2>8, <2>9
<1>10. QED
  BY <1>7, <1>8, <1>9 DEF DeliveryInv

LEMMA PostDelivers ==
  ASSUME TypeInv, DeliveryInv, NEW s \in Syncers, Post(s)
  PROVE  DeliveryInv'
<1> DEFINE k0 == Head(sync[s].todo)
           total(k) == Posting(Supervisor, k) + Posting(Cli, k)
<1>1. sync[s].at = "post" /\ outbox' = outbox
  BY DEF Post
<1>2. /\ k0 \in DOMAIN outbox
      /\ copies' \in [DOMAIN outbox -> Nat]
      /\ copies'[k0] \in {copies[k0], copies[k0] + 1}
      /\ \A i \in DOMAIN outbox \ {k0} : copies'[i] = copies[i]
      /\ \/ Goto(s, "delivered") /\ copies'[k0] = copies[k0] + 1
         \/ Goto(s, "failed")
      /\ used'["malformed"] = used["malformed"]
  BY PostPosts
<1>3. copies \in [DOMAIN outbox -> Nat] /\ used["malformed"] \in Nat
  BY DEF TypeInv, TypeOK, Faults
<1>4. \A i \in DOMAIN outbox : copies'[i] \in Nat /\ copies[i] \in Nat /\ copies'[i] >= copies[i]
  <2> SUFFICES ASSUME NEW i \in DOMAIN outbox
               PROVE  copies'[i] \in Nat /\ copies[i] \in Nat /\ copies'[i] >= copies[i]
    OBVIOUS
  <2>1. copies'[i] \in Nat /\ copies[i] \in Nat
    BY <1>2, <1>3
  <2>2. copies'[i] \in {copies[i], copies[i] + 1}
    BY <1>2
  <2>3. QED
    BY <2>1, <2>2
<1>5. /\ sync'[s].at \in {"delivered", "failed"} /\ sync'[s].todo = sync[s].todo
      /\ \A t \in Syncers \ {s} : sync'[t] = sync[t]
      /\ sync'[s].at = "delivered" => copies'[k0] = copies[k0] + 1
  BY <1>2, GotoMoves DEF Labels
<1>6. DeliveredIsStored'
  <2> SUFFICES ASSUME NEW i \in DOMAIN outbox, outbox[i].state = "delivered" PROVE copies'[i] > 0
    BY <1>1 DEF DeliveredIsStored
  <2>1. copies[i] > 0
    BY DEF DeliveryInv, DeliveredIsStored
  <2>2. QED
    BY <1>4, <2>1
<1>7. StoredBeforeMarked'
  <2> SUFFICES ASSUME NEW t \in Syncers, sync'[t].at = "delivered"
               PROVE  copies'[Head(sync'[t].todo)] > 0
    BY DEF StoredBeforeMarked
  <2>1. CASE t = s
    <3>1. copies'[k0] = copies[k0] + 1 /\ copies[k0] \in Nat
      BY <1>2, <1>4, <1>5, <2>1
    <3>2. QED
      BY <1>5, <2>1, <3>1
  <2>2. CASE t # s
    <3>1. sync'[t] = sync[t] /\ Head(sync[t].todo) \in DOMAIN outbox
      BY <1>5, <2>2, WorkLeft
    <3>2. copies[Head(sync[t].todo)] > 0
      BY <3>1 DEF DeliveryInv, StoredBeforeMarked
    <3>3. QED
      BY <1>4, <3>1, <3>2
  <2>3. QED
    BY <2>1, <2>2
<1>8. PostsBounded'
  <2> SUFFICES ASSUME NEW k \in DOMAIN outbox
               PROVE  copies'[k] + (Posting(Supervisor, k) + Posting(Cli, k))' <= 2 + used["malformed"]
    <3>1. \A k : Posting(Supervisor, k)' \in {0, 1} /\ Posting(Cli, k)' \in {0, 1}
      BY PostingIsNumber
    <3>2. QED
      BY <1>1, <1>2, <1>3, <1>4, <3>1 DEF PostsBounded
  <2>1. /\ copies[k] \in Nat /\ copies'[k] \in Nat
        /\ \A t \in Syncers : Posting(t, k) \in {0, 1} /\ Posting(t, k)' \in {0, 1}
    BY <1>4, PostingIsNumber
  <2>2. Supervisor \in Syncers /\ Cli \in Syncers
    BY DEF Syncers
  <2>3. copies[k] + total(k) <= 2 + used["malformed"]
    BY <1>3, <2>1, <2>2 DEF DeliveryInv, PostsBounded
  <2>4. Posting(s, k)' = 0
    BY <1>5 DEF Posting
  <2>5. total(k)' = total(k) - Posting(s, k)
    BY <1>5, <2>1, <2>2, <2>4, PostingOfOne
  <2>6. CASE k = k0
    <3>1. Posting(s, k) = 1
      BY <1>1, <2>6 DEF Posting
    <3>2. copies'[k] \in {copies[k], copies[k] + 1}
      BY <1>2, <2>6
    <3>3. QED
      BY <1>3, <2>1, <2>2, <2>3, <2>5, <3>1, <3>2
  <2>7. CASE k # k0
    <3>1. copies'[k] = copies[k]
      BY <1>2, <2>7
    <3>2. QED
      BY <1>3, <2>1, <2>2, <2>3, <2>5, <3>1
  <2>8. QED
    BY <2>6, <2>7
<1>9. QED
  BY <1>6, <1>7, <1>8 DEF DeliveryInv

LEMMA MarkDelivers ==
  ASSUME TypeInv, DeliveryInv, NEW s \in Syncers, Mark(s)
  PROVE  DeliveryInv'
<1> DEFINE k0 == Head(sync[s].todo)
<1>1. sync[s].at \in {"delivered", "failed"} /\ UNCHANGED <<copies, used>>
  BY DEF Mark
<1>2. k0 \in DOMAIN outbox /\ OutboxMarked(k0, s)
  BY MarkMarks
<1>3. sync \in [Syncers -> Sync] /\ copies \in [DOMAIN outbox -> Nat] /\ used["malformed"] \in Nat
  BY DEF TypeInv, TypeOK, Faults
<1>4. /\ sync'[s].at \in {"list", "select", "idle"}
      /\ \A t \in Syncers \ {s} : sync'[t] = sync[t]
  <2>1. PICK label \in {"list", "select", "idle"} :
           sync' = [sync EXCEPT ![s] = [at |-> label, todo |-> Tail(sync[s].todo),
                                        init |-> sync[s].init]]
    BY MarkMarks
  <2>2. QED
    BY <1>3, <2>1
<1>5. DeliveredIsStored'
  <2> SUFFICES ASSUME NEW i \in DOMAIN outbox, outbox'[i].state = "delivered" PROVE copies[i] > 0
    BY <1>1, <1>2 DEF DeliveredIsStored, OutboxMarked
  <2>1. CASE i = k0
    <3>1. sync[s].at = "delivered"
      BY <1>2, <2>1 DEF OutboxMarked, Outcome
    <3>2. QED
      BY <2>1, <3>1 DEF DeliveryInv, StoredBeforeMarked
  <2>2. CASE i # k0
    BY <1>2, <2>2 DEF OutboxMarked, DeliveryInv, DeliveredIsStored
  <2>3. QED
    BY <2>1, <2>2
<1>6. StoredBeforeMarked'
  BY <1>1, <1>4 DEF DeliveryInv, StoredBeforeMarked
<1>7. PostsBounded'
  <2>1. \A t \in Syncers, k \in DOMAIN outbox : Posting(t, k)' = Posting(t, k)
    BY <1>1, <1>4 DEF Posting
  <2>2. Supervisor \in Syncers /\ Cli \in Syncers /\ DOMAIN outbox' = DOMAIN outbox
    BY <1>2 DEF Syncers, OutboxMarked
  <2>3. QED
    BY <1>1, <2>1, <2>2 DEF DeliveryInv, PostsBounded
<1>8. QED
  BY <1>5, <1>6, <1>7 DEF DeliveryInv

LEMMA DeliveryInvHolds == Spec => []DeliveryInv
<1>1. Init => DeliveryInv
  BY DEF Init, DeliveryInv, DeliveredIsStored, StoredBeforeMarked, PostsBounded
<1>2. TypeInv /\ TypeInv' /\ DeliveryInv /\ [Next]_vars => DeliveryInv'
  BY QuietSteps, QuietDelivers, ListDelivers, PostDelivers, MarkDelivers
<1>3. QED
  BY <1>1, <1>2, TypeInvHolds, PTL DEF Spec

(* What the outbox calls delivered is at the provider, however many answers *)
(* are lost and whichever process dies between a post and its row's update. *)
THEOREM DeliveredStaysStored == Spec => []DeliveredIsStored
<1>1. DeliveryInv => DeliveredIsStored
  BY DEF DeliveryInv
<1>2. QED
  BY <1>1, DeliveryInvHolds, PTL

(* A learning is at the provider at most once per syncer and once more for  *)
(* each malformed listing, after any number of retries, lost answers and    *)
(* restarts (deliver looks for the fingerprint before it posts).            *)
THEOREM CopiesStayBounded == Spec => []CopiesBounded
<1>1. Cardinality(Syncers) = 2
  <2>1. Syncers = {Supervisor} \cup {Cli} /\ Cli \notin {Supervisor}
    BY MemoryAssumption DEF Syncers
  <2>2. IsFiniteSet({Supervisor}) /\ Cardinality({Supervisor}) = 1
    BY FS_Singleton
  <2>3. QED
    BY <2>1, <2>2, FS_AddElement
<1>2. TypeInv /\ DeliveryInv => CopiesBounded
  <2> SUFFICES ASSUME TypeInv, DeliveryInv, NEW k \in DOMAIN outbox
               PROVE  copies[k] <= 2 + used["malformed"]
    BY <1>1 DEF CopiesBounded
  <2>1. copies[k] \in Nat /\ used["malformed"] \in Nat
    BY DEF TypeInv, TypeOK, Faults
  <2>2. copies[k] + Posting(Supervisor, k) + Posting(Cli, k) <= 2 + used["malformed"]
    BY DEF DeliveryInv, PostsBounded
  <2>3. QED
    BY <2>1, <2>2, PostingIsNumber
<1>3. QED
  BY <1>2, TypeInvHolds, DeliveryInvHolds, PTL

-----------------------------------------------------------------------------
(* `memory init`.                                                           *)

(* What the final preview of `memory init` found queued is in the outbox.   *)
ScanIsQueued ==
  sync[Cli].at = "report" =>
     \A i \in scan : \E k \in DOMAIN outbox : outbox[k].learning.of = history[i].at

(* Rows stay, with their learning; messages stay at the provider.           *)
Kept ==
  /\ \A i \in DOMAIN history : i \in DOMAIN history' /\ history'[i].at = history[i].at
  /\ \A k \in DOMAIN outbox :
        /\ k \in DOMAIN outbox' /\ outbox'[k].learning = outbox[k].learning
        /\ copies[k] > 0 => copies'[k] > 0

LEMMA HistoryKept ==
  ASSUME TypeInv, [Next]_vars
  PROVE  \A i \in DOMAIN history : i \in DOMAIN history' /\ history'[i].at = history[i].at
<1>1. history \in Seq(Row)
  BY DEF TypeInv, TypeOK
<1>2. CASE history' = history
  BY <1>2
<1>3. CASE Rejudged
  <2>1. PICK j \in Judgement : Follows(history', history, j)
    BY <1>3 DEF Rejudged
  <2>2. DOMAIN history \subseteq DOMAIN history'
    BY <1>1, <2>1, FollowsHasRows
  <2>3. QED
    BY <2>1, <2>2 DEF Follows
<1>4. QED
  BY <1>2, <1>3, HistorySteps DEF Restored

LEMMA StepsKeep ==
  ASSUME TypeInv, [Next]_vars
  PROVE  Kept
<1>1. \A k \in DOMAIN outbox : copies[k] \in Nat
  BY DEF TypeInv, TypeOK
<1>2. \A k \in DOMAIN outbox :
        /\ k \in DOMAIN outbox' /\ outbox'[k].learning = outbox[k].learning
        /\ copies[k] > 0 => copies'[k] > 0
  <2>1. CASE Quiet
    BY <2>1 DEF Quiet
  <2>2. ASSUME NEW s \in Syncers, List(s)
        PROVE  UNCHANGED <<outbox, copies>>
    BY <2>2 DEF List
  <2>3. ASSUME NEW s \in Syncers, Post(s), NEW k \in DOMAIN outbox
        PROVE  outbox' = outbox /\ (copies[k] > 0 => copies'[k] > 0)
    <3>1. copies'[k] \in {copies[k], copies[k] + 1}
      BY <2>3, PostPosts
    <3>2. QED
      BY <1>1, <2>3, <3>1 DEF Post
  <2>4. ASSUME NEW s \in Syncers, Mark(s), NEW k \in DOMAIN outbox
        PROVE  /\ k \in DOMAIN outbox' /\ outbox'[k].learning = outbox[k].learning
               /\ copies' = copies
    <3>1. OutboxMarked(Head(sync[s].todo), s) /\ copies' = copies
      BY <2>4, MarkMarks DEF Mark
    <3>2. QED
      BY <3>1 DEF OutboxMarked
  <2>5. QED
    BY <2>1, <2>2, <2>3, <2>4, QuietSteps
<1>3. QED
  BY <1>2, HistoryKept DEF Kept

(* Steps that report nothing and preview nothing.                           *)
Silent ==
  /\ ready' = ready
  /\ sync'[Cli].at = "report" => sync[Cli].at = "report" /\ scan' = scan

LEMMA SilentSteps ==
  ASSUME TypeInv, [Next]_vars
  PROVE  Silent \/ Check \/ Report
<1>1. sync \in [Syncers -> Sync] /\ Cli \in Syncers
  BY DEF TypeInv, TypeOK, Syncers
<1>2. ASSUME UNCHANGED <<sync, scan, ready>> PROVE Silent
  BY <1>2 DEF Silent
<1>3. ASSUME NEW s \in Syncers, NEW label \in Labels \ {"report"}, Goto(s, label), ready' = ready,
             s = Supervisor => scan' = scan
      PROVE  Silent
  <2>1. sync'[s].at = label /\ \A t \in Syncers \ {s} : sync'[t] = sync[t]
    BY <1>3, GotoMoves
  <2>2. s = Cli \/ s = Supervisor
    BY DEF Syncers
  <2>3. QED
    BY <1>1, <1>3, <2>1, <2>2 DEF Silent
<1>4. ASSUME NEW s \in Syncers, NEW label, NEW todo, NEW init, label # "report",
             sync' = [sync EXCEPT ![s] = [at |-> label, todo |-> todo, init |-> init]],
             ready' = ready, s = Supervisor => scan' = scan
      PROVE  Silent
  <2>1. sync'[s].at # "report" /\ \A t \in Syncers \ {s} : sync'[t] = sync[t]
    BY <1>1, <1>4
  <2>2. s = Cli \/ s = Supervisor
    BY DEF Syncers
  <2>3. QED
    BY <1>1, <1>4, <2>1, <2>2 DEF Silent
<1>5. CASE UNCHANGED vars
  BY <1>2, <1>5 DEF vars
<1>6. ASSUME NEW r \in Runs, StoreRun(r) \/ Reevaluate(r) PROVE Silent
  BY <1>2, <1>6 DEF StoreRun, Reevaluate
<1>7. ASSUME NEW v \in Evaluators, NEW e \in Experiments, NEW kind \in Kinds, Judge(v, e, kind)
      PROVE  Silent
  BY <1>2, <1>7 DEF Judge
<1>8. ASSUME NEW v \in Evaluators, NEW r \in Runs, AddRunAndEvaluation(v, r) PROVE Silent
  BY <1>2, <1>8 DEF AddRunAndEvaluation, Store
<1>9. ASSUME NEW v \in Evaluators, AddEvaluation(v) PROVE Silent
  BY <1>2, <1>9 DEF AddEvaluation, Store
<1>10. CASE Finalize
  <2>1. Goto(Supervisor, "select") /\ UNCHANGED <<scan, ready>> /\ Supervisor \in Syncers
    BY <1>10 DEF Finalize, Store, Goto, Syncers
  <2>2. QED
    BY <1>3, <2>1 DEF Labels
<1>11. ASSUME NEW s \in Syncers, Deliver(s) PROVE Silent
  <2>1. UNCHANGED <<scan, ready>>
    BY <1>11 DEF Deliver, Select, List, Post, Mark
  <2>2. CASE Select(s)
    <3>1. PICK todo \in Seq(DOMAIN outbox), label \in {"list", "check", "idle"} :
             sync' = [sync EXCEPT ![s] = [at |-> label, todo |-> todo, init |-> sync[s].init]]
      BY <2>2, SelectTakes
    <3>2. QED
      BY <1>4, <2>1, <3>1
  <2>3. CASE List(s)
    <3>1. \E label \in {"delivered", "post", "failed"} : Goto(s, label)
      BY <2>3 DEF List
    <3>2. QED
      BY <1>3, <2>1, <3>1 DEF Labels
  <2>4. CASE Post(s)
    <3>1. \E label \in {"delivered", "failed"} : Goto(s, label)
      BY <2>4, PostPosts
    <3>2. QED
      BY <1>3, <2>1, <3>1 DEF Labels
  <2>5. CASE Mark(s)
    <3>1. PICK label \in {"list", "select", "idle"} :
             sync' = [sync EXCEPT ![s] = [at |-> label, todo |-> Tail(sync[s].todo),
                                          init |-> sync[s].init]]
      BY <2>5, MarkMarks
    <3>2. QED
      BY <1>4, <2>1, <3>1
  <2>6. QED
    BY <1>11, <2>2, <2>3, <2>4, <2>5 DEF Deliver
<1>12. ASSUME NEW s \in Syncers, Crash(s) PROVE Silent
  <2>1. /\ ready' = ready /\ (s = Supervisor => scan' = scan)
        /\ sync' = [sync EXCEPT ![s] = [at |-> "idle", todo |-> <<>>, init |-> FALSE]]
    BY <1>12, MemoryAssumption DEF Crash
  <2>2. QED
    BY <1>4, <2>1
<1>13. ASSUME NEW k \in DOMAIN outbox, BackoffEnds(k) PROVE Silent
  BY <1>2, <1>13 DEF BackoffEnds
<1>14. ASSUME NEW label \in {"select", "scan"}, NEW init, Command(label, init) PROVE Silent
  <2>1. /\ UNCHANGED <<scan, ready>>
        /\ sync' = [sync EXCEPT ![Cli] = [at |-> label, todo |-> <<>>, init |-> init]]
    BY <1>14 DEF Command
  <2>2. QED
    BY <1>1, <1>4, <2>1
<1>15. CASE Scan \/ Insert
  <2>1. ready' = ready /\ \E label \in {"insert", "idle", "scan", "select"} : Goto(Cli, label)
    BY <1>15 DEF Scan, Insert
  <2>2. Cli # Supervisor
    BY MemoryAssumption
  <2>3. QED
    BY <1>1, <1>3, <2>1, <2>2 DEF Labels
<1>16. QED
  BY <1>5, <1>6, <1>7, <1>8, <1>9, <1>10, <1>11, <1>12, <1>13, <1>14, <1>15
     DEF Next, Commands, Backfill

ReadyInv == ScanIsQueued /\ ReadyMeansRemembered

LEMMA ReadyStep ==
  ASSUME TypeInv, DeliveryInv, ReadyInv, [Next]_vars
  PROVE  ReadyInv'
<1>1. scan \subseteq DOMAIN history /\ ready \subseteq DOMAIN history /\ sync \in [Syncers -> Sync]
      /\ Cli \in Syncers
  BY DEF TypeInv, TypeOK, Syncers
<1>2. /\ \A i \in DOMAIN history : history'[i].at = history[i].at
      /\ \A k \in DOMAIN outbox : /\ k \in DOMAIN outbox' /\ outbox'[k].learning = outbox[k].learning
                                  /\ copies[k] > 0 => copies'[k] > 0
  BY StepsKeep DEF Kept
<1>3. \A i \in ready : \E k \in DOMAIN outbox' :
         outbox'[k].learning.of = history'[i].at /\ copies'[k] > 0
  <2> SUFFICES ASSUME NEW i \in ready
               PROVE  \E k \in DOMAIN outbox' : outbox'[k].learning.of = history'[i].at /\ copies'[k] > 0
    OBVIOUS
  <2>1. PICK k \in DOMAIN outbox : outbox[k].learning.of = history[i].at /\ copies[k] > 0
    BY DEF ReadyInv, ReadyMeansRemembered
  <2>2. QED
    BY <1>1, <1>2, <2>1
<1>4. CASE Silent
  <2>1. ReadyMeansRemembered'
    BY <1>3, <1>4 DEF Silent, ReadyMeansRemembered
  <2>2. ScanIsQueued'
    <3> SUFFICES ASSUME sync'[Cli].at = "report", NEW i \in scan'
                 PROVE  \E k \in DOMAIN outbox' : outbox'[k].learning.of = history'[i].at
      BY DEF ScanIsQueued
    <3>1. i \in scan /\ sync[Cli].at = "report"
      BY <1>4 DEF Silent
    <3>2. PICK k \in DOMAIN outbox : outbox[k].learning.of = history[i].at
      BY <3>1 DEF ReadyInv, ScanIsQueued
    <3>3. QED
      BY <1>1, <1>2, <3>1, <3>2
  <2>3. QED
    BY <2>1, <2>2 DEF ReadyInv
<1>5. CASE Check
  <2>1. UNCHANGED <<history, outbox, ready>>
    BY <1>5 DEF Check
  <2>2. ReadyMeansRemembered'
    BY <1>3, <2>1 DEF ReadyMeansRemembered
  <2>3. \A i \in scan' : LearningOf(history[i], finding) \in Queued
    BY <1>5 DEF Check, Unqueued
  <2>4. \A i : LearningOf(history[i], finding).of = history[i].at
    BY DEF LearningOf
  <2>5. \A i \in scan' : \E k \in DOMAIN outbox : outbox[k].learning.of = history[i].at
    BY <2>3, <2>4 DEF Queued
  <2>6. QED
    BY <2>1, <2>2, <2>5 DEF ReadyInv, ScanIsQueued
<1>6. CASE Report
  <2>1. /\ sync[Cli].at = "report" /\ UNCHANGED <<history, outbox, copies>>
        /\ ready' = IF Settled THEN ready \cup scan ELSE ready
    BY <1>6 DEF Report
  <2>2. ScanIsQueued'
    BY <1>6 DEF Report, ScanIsQueued
  <2>3. ASSUME Settled, NEW i \in scan
        PROVE  \E k \in DOMAIN outbox : outbox[k].learning.of = history[i].at /\ copies[k] > 0
    BY <2>1, <2>3 DEF ReadyInv, ScanIsQueued, Settled, DeliveryInv, DeliveredIsStored
  <2>4. ReadyMeansRemembered'
    BY <1>3, <2>1, <2>3 DEF ReadyMeansRemembered
  <2>5. QED
    BY <2>2, <2>4 DEF ReadyInv
<1>7. QED
  BY <1>4, <1>5, <1>6, SilentSteps

LEMMA ReadyInvHolds == Spec => []ReadyInv
<1>1. Init => ReadyInv
  BY MemoryAssumption DEF Init, ReadyInv, ScanIsQueued, ReadyMeansRemembered, Syncers
<1>2. TypeInv /\ DeliveryInv /\ ReadyInv /\ [Next]_vars => ReadyInv'
  BY ReadyStep
<1>3. QED
  BY <1>1, <1>2, TypeInvHolds, DeliveryInvHolds, PTL DEF Spec

(* A judgement that `memory init` reported ready is at the provider, for    *)
(* ever, although others judge, deliver and fail while the command runs     *)
(* (initialize_research_memory previews, then reads memory_status).         *)
THEOREM ReadyStaysRemembered == Spec => []ReadyMeansRemembered
<1>1. ReadyInv => ReadyMeansRemembered
  BY DEF ReadyInv
<1>2. QED
  BY <1>1, ReadyInvHolds, PTL

-----------------------------------------------------------------------------
(* The memory implements AdvisoryMemory.                                    *)

(* No two judgements, stored or not, were made at one time.                 *)
JudgedApart ==
  /\ clock <= MaxJudgements
  /\ \A i \in DOMAIN history : history[i].at \in 1 .. clock
  /\ \A i, k \in DOMAIN history : history[i].at = history[k].at => i = k
  /\ \A v \in Evaluators : judging[v] # NoJudgement =>
        /\ judging[v].at \in 1 .. clock
        /\ \A i \in DOMAIN history : history[i].at # judging[v].at
        /\ \A w \in Evaluators \ {v} : judging[w] # NoJudgement => judging[w].at # judging[v].at

(* Learnings are of judgements that were made.                              *)
LearnedInTime == \A k \in DOMAIN outbox : outbox[k].learning.of \in 1 .. clock

ScanIsSafe == \A i \in scan : history[i].kind # "unsafe"

PromiseInv == JudgedApart /\ LearnedInTime /\ ScanIsSafe

(* The judgement of v is stored, with what may be learned from it.          *)
Stored(v) ==
  /\ judging[v] # NoJudgement /\ judging[v] \in Judgement
  /\ Follows(history', history, judging[v])
  /\ judging' = [judging EXCEPT ![v] = NoJudgement]
  /\ OutboxGrows /\ AddedFrom({LearningOf(judging[v], finding')})
  /\ judging[v].kind = "unsafe" => AddedFrom({})
  /\ UNCHANGED <<clock, scan, ready>>

(* A verdict is repaired.                                                   *)
Repaired ==
  /\ clock < MaxJudgements /\ clock' = clock + 1
  /\ \E j \in Judgement : j.at = clock + 1 /\ Follows(history', history, j)
  /\ UNCHANGED <<judging, outbox, copies, scan, ready>>

(* An evaluator makes a judgement.                                          *)
Judged ==
  \E v \in Evaluators, e \in Experiments, kind \in Kinds : Judge(v, e, kind)

(* What a provider, a transport or a selection does to a process and to the *)
(* state of a row of the outbox.                                            *)
Unmoved ==
  /\ UNCHANGED <<clock, judging, history, copies, ready>>
  /\ DOMAIN outbox' = DOMAIN outbox
  /\ \A k \in DOMAIN outbox : outbox'[k].learning = outbox[k].learning
  /\ scan' \subseteq scan \cup Memorable

LEMMA StoreIsStored ==
  ASSUME TypeInv, NEW v \in Evaluators, judging[v] # NoJudgement, NEW runs, NEW learn \in BOOLEAN,
         Store(v, runs, learn)
  PROVE  Stored(v)
BY StoreGrows DEF Stored

LEMMA PromiseSteps ==
  ASSUME TypeInv, [Next]_vars
  PROVE  \/ \E v \in Evaluators : Stored(v)
         \/ Repaired \/ Judged \/ Unmoved \/ Insert \/ Report
         \/ \E s \in Syncers : Post(s)
<1>1. CASE UNCHANGED vars
  BY <1>1 DEF vars, Unmoved
<1>2. ASSUME NEW r \in Runs, StoreRun(r) PROVE Unmoved
  BY <1>2 DEF StoreRun, Unmoved
<1>3. ASSUME NEW r \in Runs, Reevaluate(r) PROVE Repaired
  <2>1. /\ clock < MaxJudgements /\ clock' = clock + 1
        /\ UNCHANGED <<judging, outbox, copies, scan, ready>>
    BY <1>3 DEF Reevaluate
  <2>2. PICK j \in Judgement : j.at = clock + 1 /\ Follows(history', history, j)
    BY <1>3, ReevaluateGrows
  <2>3. QED
    BY <2>1, <2>2 DEF Repaired
<1>4. ASSUME NEW v \in Evaluators, AddEvaluation(v) PROVE Stored(v)
  <2> DEFINE seen == Evident(finding, judging[v].exp)
             learn == seen # {}
  <2>1. judging[v] # NoJudgement /\ Store(v, seen, learn)
    BY <1>4 DEF AddEvaluation
  <2>2. learn \in BOOLEAN
    OBVIOUS
  <2> HIDE DEF seen, learn
  <2>3. QED
    BY <2>1, <2>2, StoreIsStored
<1>5. ASSUME NEW v \in Evaluators, NEW r \in Runs, AddRunAndEvaluation(v, r) PROVE Stored(v)
  BY <1>5, StoreIsStored DEF AddRunAndEvaluation
<1>6. CASE Finalize
  <2> DEFINE seen == Evident(finding, judging[Analyzer].exp)
  <2>1. judging[Analyzer] # NoJudgement /\ Store(Analyzer, seen, TRUE) /\ Analyzer \in Evaluators
    BY <1>6, MemoryAssumption DEF Finalize
  <2> HIDE DEF seen
  <2>2. QED
    BY <2>1, StoreIsStored
<1>7. ASSUME NEW s \in Syncers, Select(s) \/ List(s) \/ Crash(s) PROVE Unmoved
  BY <1>7 DEF Select, List, Crash, Unmoved
<1>8. ASSUME NEW s \in Syncers, Mark(s) PROVE Unmoved
  <2>1. OutboxMarked(Head(sync[s].todo), s)
    BY <1>8, MarkMarks
  <2>2. QED
    BY <1>8, <2>1 DEF Mark, OutboxMarked, Unmoved
<1>9. ASSUME NEW k \in DOMAIN outbox, BackoffEnds(k) PROVE Unmoved
  <2>1. UNCHANGED <<clock, judging, history, copies, scan, ready>>
    BY <1>9 DEF BackoffEnds
  <2>2. QED
    BY <1>9, <2>1, BackoffDue DEF Unmoved
<1>10. CASE Commands \/ Scan \/ Check
  BY <1>10 DEF Commands, Command, Scan, Check, Unmoved
<1>11. QED
  BY <1>1, <1>2, <1>3, <1>4, <1>5, <1>6, <1>7, <1>8, <1>9, <1>10 DEF Next, Deliver, Backfill, Judged

(* The times of a history with one judgement more.                          *)
LEMMA FollowsTimes ==
  ASSUME TypeInv, NEW j \in Judgement, Follows(history', history, j)
  PROVE  /\ DOMAIN history' = DOMAIN history \cup {Len(history) + 1} /\ Len(history) + 1 \notin DOMAIN history
         /\ history'[Len(history) + 1].at = j.at /\ history'[Len(history) + 1].kind = j.kind
         /\ \A i \in DOMAIN history : /\ history'[i].at = history[i].at
                                      /\ history'[i].kind = history[i].kind
<1>1. history \in Seq(Row) /\ history' \in Seq(Row) /\ Len(history') = Len(history) + 1
  BY DEF TypeInv, TypeOK, Follows
<1>2. /\ DOMAIN history = 1 .. Len(history) /\ DOMAIN history' = 1 .. Len(history')
      /\ Len(history) \in Nat
  BY <1>1
<1>3. QED
  BY <1>1, <1>2 DEF Follows

(* A judgement that nothing has the time of, of a time that was reached.    *)
LEMMA FollowsApart ==
  ASSUME TypeInv, JudgedApart, NEW j \in Judgement, Follows(history', history, j),
         j.at \in 1 .. clock', clock' \in {clock, clock + 1}, clock' <= MaxJudgements,
         \A i \in DOMAIN history : history[i].at # j.at
  PROVE  /\ \A i \in DOMAIN history' : history'[i].at \in 1 .. clock'
         /\ \A i, k \in DOMAIN history' : history'[i].at = history'[k].at => i = k
<1>1. clock \in Nat
  BY DEF TypeInv, TypeOK
<1>2. 1 .. clock \subseteq 1 .. clock'
  BY <1>1
<1>3. \A i \in DOMAIN history : history[i].at \in 1 .. clock'
  BY <1>2 DEF JudgedApart
<1>4. \A i, k \in DOMAIN history : history[i].at = history[k].at => i = k
  BY DEF JudgedApart
<1>5. QED
  BY <1>3, <1>4, FollowsTimes

LEMMA StoredApart ==
  ASSUME TypeInv, JudgedApart, NEW v \in Evaluators, Stored(v)
  PROVE  JudgedApart'
<1>1. judging \in [Evaluators -> Judgement \cup {NoJudgement}] /\ clock \in Nat
  BY DEF TypeInv, TypeOK
<1>2. /\ judging[v] \in Judgement /\ judging[v] # NoJudgement
      /\ Follows(history', history, judging[v]) /\ clock' = clock
      /\ judging' = [judging EXCEPT ![v] = NoJudgement]
  BY DEF Stored
<1>3. /\ judging[v].at \in 1 .. clock' /\ clock' <= MaxJudgements
      /\ \A i \in DOMAIN history : history[i].at # judging[v].at
      /\ \A w \in Evaluators \ {v} : judging[w] # NoJudgement => judging[w].at # judging[v].at
  BY <1>2 DEF JudgedApart
<1>4. /\ \A i \in DOMAIN history' : history'[i].at \in 1 .. clock'
      /\ \A i, k \in DOMAIN history' : history'[i].at = history'[k].at => i = k
  BY <1>2, <1>3, FollowsApart
<1>5. ASSUME NEW w \in Evaluators, judging'[w] # NoJudgement
      PROVE  /\ judging'[w].at \in 1 .. clock'
             /\ \A i \in DOMAIN history' : history'[i].at # judging'[w].at
             /\ \A u \in Evaluators \ {w} : judging'[u] # NoJudgement => judging'[u].at # judging'[w].at
  <2>1. w # v /\ judging'[w] = judging[w] /\ \A u \in Evaluators \ {v} : judging'[u] = judging[u]
    BY <1>1, <1>2, <1>5
  <2>2. judging'[v] = NoJudgement
    BY <1>1, <1>2
  <2>3. \A i \in DOMAIN history' : history'[i].at # judging[w].at
    <3>1. \A i \in DOMAIN history : history[i].at # judging[w].at
      BY <1>5, <2>1 DEF JudgedApart
    <3>2. judging[w].at # judging[v].at
      BY <1>3, <1>5, <2>1
    <3>3. QED
      BY <1>2, <3>1, <3>2, FollowsTimes
  <2>4. QED
    BY <1>2, <1>5, <2>1, <2>2, <2>3 DEF JudgedApart
<1>6. QED
  BY <1>3, <1>4, <1>5 DEF JudgedApart

LEMMA RepairedApart ==
  ASSUME TypeInv, JudgedApart, Repaired
  PROVE  JudgedApart'
<1>1. clock \in Nat /\ MaxJudgements \in Nat
  BY MemoryAssumption DEF TypeInv, TypeOK
<1>2. PICK j \in Judgement : j.at = clock + 1 /\ Follows(history', history, j)
  BY DEF Repaired
<1>3. clock' = clock + 1 /\ clock' <= MaxJudgements /\ judging' = judging
  BY <1>1 DEF Repaired
<1>4. j.at \notin 1 .. clock /\ j.at \in 1 .. clock' /\ 1 .. clock \subseteq 1 .. clock'
  BY <1>1, <1>2, <1>3
<1>5. \A i \in DOMAIN history : history[i].at # j.at
  BY <1>4 DEF JudgedApart
<1>6. /\ \A i \in DOMAIN history' : history'[i].at \in 1 .. clock'
      /\ \A i, k \in DOMAIN history' : history'[i].at = history'[k].at => i = k
  BY <1>2, <1>3, <1>4, <1>5, FollowsApart
<1>7. ASSUME NEW v \in Evaluators, judging[v] # NoJudgement
      PROVE  /\ judging[v].at \in 1 .. clock'
             /\ \A i \in DOMAIN history' : history'[i].at # judging[v].at
             /\ \A w \in Evaluators \ {v} : judging[w] # NoJudgement => judging[w].at # judging[v].at
  <2>1. /\ judging[v].at \in 1 .. clock
        /\ \A i \in DOMAIN history : history[i].at # judging[v].at
        /\ \A w \in Evaluators \ {v} : judging[w] # NoJudgement => judging[w].at # judging[v].at
    BY <1>7 DEF JudgedApart
  <2>2. j.at # judging[v].at
    BY <1>4, <2>1
  <2>3. \A i \in DOMAIN history' : history'[i].at # judging[v].at
    BY <1>2, <2>1, <2>2, FollowsTimes
  <2>4. QED
    BY <1>4, <2>1, <2>3
<1>8. QED
  BY <1>3, <1>6, <1>7 DEF JudgedApart

LEMMA JudgedStaysApart ==
  ASSUME TypeInv, JudgedApart, Judged
  PROVE  JudgedApart'
<1>1. PICK v \in Evaluators, e \in Experiments, kind \in Kinds : Judge(v, e, kind)
  BY DEF Judged
<1>2. judging \in [Evaluators -> Judgement \cup {NoJudgement}] /\ clock \in Nat /\ MaxJudgements \in Nat
  BY MemoryAssumption DEF TypeInv, TypeOK
<1>3. /\ judging[v] = NoJudgement /\ clock < MaxJudgements /\ clock' = clock + 1 /\ history' = history
      /\ judging' = [judging EXCEPT ![v] = [exp |-> e, by |-> v, at |-> clock + 1, kind |-> kind]]
  BY <1>1 DEF Judge
<1>4. judging'[v].at = clock + 1 /\ \A w \in Evaluators \ {v} : judging'[w] = judging[w]
  BY <1>2, <1>3
<1>5. clock + 1 \notin 1 .. clock /\ clock + 1 \in 1 .. clock' /\ 1 .. clock \subseteq 1 .. clock'
      /\ clock' <= MaxJudgements
  BY <1>2, <1>3
<1>6. \A i \in DOMAIN history : history[i].at \in 1 .. clock' /\ history[i].at # clock + 1
  BY <1>5 DEF JudgedApart
<1>7. \A w \in Evaluators \ {v} : judging'[w] # NoJudgement => judging'[w].at # clock + 1
  BY <1>4, <1>5 DEF JudgedApart
<1>8. ASSUME NEW w \in Evaluators, judging'[w] # NoJudgement
      PROVE  /\ judging'[w].at \in 1 .. clock'
             /\ \A i \in DOMAIN history : history[i].at # judging'[w].at
             /\ \A u \in Evaluators \ {w} : judging'[u] # NoJudgement => judging'[u].at # judging'[w].at
  <2>1. CASE w = v
    BY <1>4, <1>5, <1>6, <1>7, <2>1
  <2>2. CASE w # v
    <3>1. /\ judging[w].at \in 1 .. clock
          /\ \A i \in DOMAIN history : history[i].at # judging[w].at
          /\ \A u \in Evaluators \ {w} : judging[u] # NoJudgement => judging[u].at # judging[w].at
      BY <1>4, <1>8, <2>2 DEF JudgedApart
    <3>2. QED
      BY <1>4, <1>5, <1>7, <1>8, <2>2, <3>1
  <2>3. QED
    BY <2>1, <2>2
<1>9. QED
  BY <1>3, <1>5, <1>6, <1>8 DEF JudgedApart

LEMMA LearnedStepsInTime ==
  ASSUME TypeInv, JudgedApart, LearnedInTime, OutboxGrows, clock' = clock, NEW times,
         \A k \in DOMAIN outbox' \ DOMAIN outbox : outbox'[k].learning.of \in times,
         times \subseteq 1 .. clock
  PROVE  LearnedInTime'
<1>1. \A k \in DOMAIN outbox' \cap DOMAIN outbox : outbox'[k] = outbox[k]
  BY DEF OutboxGrows
<1>2. QED
  BY <1>1 DEF LearnedInTime

(* What Insert queues was judged in a selected row.                         *)
LEMMA InsertQueues ==
  ASSUME TypeInv, Insert
  PROVE  /\ OutboxGrows /\ UNCHANGED <<clock, judging, history, ready>> /\ scan' = {}
         /\ \A k \in DOMAIN outbox' \ DOMAIN outbox : outbox'[k].learning.of \in TimesOf(scan)
<1>1. OutboxGrows /\ AddedFrom({LearningOf(history[i], finding) : i \in scan})
  BY InsertGrows
<1>2. \A i : LearningOf(history[i], finding).of = history[i].at
  BY DEF LearningOf
<1>3. QED
  BY <1>1, <1>2 DEF AddedFrom, TimesOf, Insert

LEMMA StoredQueues ==
  ASSUME NEW v \in Evaluators, Stored(v), NEW k \in DOMAIN outbox' \ DOMAIN outbox
  PROVE  outbox'[k].learning.of = judging[v].at /\ judging[v].kind # "unsafe"
<1>1. LearningOf(judging[v], finding').of = judging[v].at
  BY DEF LearningOf
<1>2. QED
  BY <1>1 DEF Stored, AddedFrom

LEMMA PromiseInvStep ==
  ASSUME TypeInv, PromiseInv, [Next]_vars
  PROVE  PromiseInv'
<1>1. scan \subseteq DOMAIN history /\ clock \in Nat /\ JudgedApart /\ LearnedInTime /\ ScanIsSafe
  BY DEF TypeInv, TypeOK, PromiseInv
<1>2. ASSUME NEW v \in Evaluators, Stored(v) PROVE PromiseInv'
  <2>1. JudgedApart'
    BY <1>1, <1>2, StoredApart
  <2>2. LearnedInTime'
    <3>1. judging[v].at \in 1 .. clock /\ OutboxGrows /\ clock' = clock
      BY <1>1, <1>2 DEF Stored, JudgedApart
    <3>2. \A k \in DOMAIN outbox' \ DOMAIN outbox : outbox'[k].learning.of \in {judging[v].at}
      BY <1>2, StoredQueues
    <3>3. {judging[v].at} \subseteq 1 .. clock
      BY <3>1
    <3>4. QED
      BY <1>1, <3>1, <3>2, <3>3, LearnedStepsInTime
  <2>3. ScanIsSafe'
    <3>1. Follows(history', history, judging[v]) /\ scan' = scan
      BY <1>2 DEF Stored
    <3>2. \A i \in DOMAIN history : history'[i].kind = history[i].kind
      BY <3>1 DEF Follows
    <3>3. QED
      BY <1>1, <3>1, <3>2 DEF ScanIsSafe
  <2>4. QED
    BY <2>1, <2>2, <2>3 DEF PromiseInv
<1>3. CASE Repaired
  <2>1. JudgedApart'
    BY <1>1, <1>3, RepairedApart
  <2>2. LearnedInTime'
    <3>1. clock' = clock + 1 /\ outbox' = outbox
      BY <1>3 DEF Repaired
    <3>2. 1 .. clock \subseteq 1 .. clock'
      BY <1>1, <3>1
    <3>3. QED
      BY <1>1, <3>1, <3>2 DEF LearnedInTime
  <2>3. ScanIsSafe'
    <3>1. PICK j \in Judgement : Follows(history', history, j)
      BY <1>3 DEF Repaired
    <3>2. \A i \in DOMAIN history : history'[i].kind = history[i].kind
      BY <3>1 DEF Follows
    <3>3. QED
      BY <1>1, <1>3, <3>2 DEF ScanIsSafe, Repaired
  <2>4. QED
    BY <2>1, <2>2, <2>3 DEF PromiseInv
<1>4. CASE Judged
  <2>1. JudgedApart'
    BY <1>1, <1>4, JudgedStaysApart
  <2>2. clock' = clock + 1 /\ UNCHANGED <<outbox, history, scan>>
    BY <1>4 DEF Judged, Judge
  <2>3. 1 .. clock \subseteq 1 .. clock'
    BY <1>1, <2>2
  <2>4. QED
    BY <1>1, <2>1, <2>2, <2>3 DEF PromiseInv, LearnedInTime, ScanIsSafe
<1>5. CASE Unmoved
  <2>1. JudgedApart' /\ LearnedInTime'
    BY <1>1, <1>5 DEF Unmoved, JudgedApart, LearnedInTime
  <2>2. ScanIsSafe'
    BY <1>1, <1>5 DEF Unmoved, ScanIsSafe, Memorable
  <2>3. QED
    BY <2>1, <2>2 DEF PromiseInv
<1>6. CASE Insert
  <2>1. /\ OutboxGrows /\ UNCHANGED <<clock, judging, history, ready>> /\ scan' = {}
        /\ \A k \in DOMAIN outbox' \ DOMAIN outbox : outbox'[k].learning.of \in TimesOf(scan)
    BY <1>6, InsertQueues
  <2>2. TimesOf(scan) \subseteq 1 .. clock
    BY <1>1 DEF TimesOf, JudgedApart
  <2>3. LearnedInTime'
    BY <1>1, <2>1, <2>2, LearnedStepsInTime
  <2>4. QED
    BY <1>1, <2>1, <2>3 DEF PromiseInv, JudgedApart, ScanIsSafe
<1>7. CASE Report \/ \E s \in Syncers : Post(s)
  <2>1. UNCHANGED <<clock, judging, history, outbox>> /\ scan' \subseteq scan
    BY <1>7 DEF Report, Post
  <2>2. QED
    BY <1>1, <2>1 DEF PromiseInv, JudgedApart, LearnedInTime, ScanIsSafe
<1>8. QED
  BY <1>2, <1>3, <1>4, <1>5, <1>6, <1>7, PromiseSteps

LEMMA PromiseInvHolds == Spec => []PromiseInv
<1>1. Init => PromiseInv
  BY MemoryAssumption DEF Init, PromiseInv, JudgedApart, LearnedInTime, ScanIsSafe
<1>2. TypeInv /\ PromiseInv /\ [Next]_vars => PromiseInv'
  BY PromiseInvStep
<1>3. QED
  BY <1>1, <1>2, TypeInvHolds, PTL DEF Spec

(* What the abstract memory sees.                                           *)
Recorded == TimesOf(DOMAIN history)
Unsafe   == TimesOf({i \in DOMAIN history : history[i].kind = "unsafe"})
Outgoing == {JudgedIn(k) : k \in DOMAIN outbox}
Sent     == {JudgedIn(k) : k \in {n \in DOMAIN outbox : copies[n] > 0}}
Vouched  == TimesOf(ready)

(* A judgement that joins the history is recorded, and unsafe if its text is. *)
LEMMA FollowsRecords ==
  ASSUME TypeInv, NEW j \in Judgement, Follows(history', history, j), ready' = ready
  PROVE  /\ Recorded' = Recorded \cup {j.at} /\ Vouched' = Vouched
         /\ Unsafe' = Unsafe \cup (IF j.kind = "unsafe" THEN {j.at} ELSE {})
<1> DEFINE n == Len(history) + 1
<1>1. /\ DOMAIN history' = DOMAIN history \cup {n} /\ n \notin DOMAIN history
      /\ history'[n].at = j.at /\ history'[n].kind = j.kind
      /\ \A i \in DOMAIN history : /\ history'[i].at = history[i].at
                                   /\ history'[i].kind = history[i].kind
  BY FollowsTimes
<1>2. ready \subseteq DOMAIN history
  BY DEF TypeInv, TypeOK
<1> HIDE DEF n
<1>3. Recorded' = Recorded \cup {j.at}
  BY <1>1 DEF Recorded, TimesOf
<1>4. Vouched' = Vouched
  BY <1>1, <1>2 DEF Vouched, TimesOf
<1>5. Unsafe' = Unsafe \cup (IF j.kind = "unsafe" THEN {j.at} ELSE {})
  BY <1>1 DEF Unsafe, TimesOf
<1>6. QED
  BY <1>3, <1>4, <1>5

(* Rows that join the outbox are queued, and nothing is sent.               *)
LEMMA GrowthQueues ==
  ASSUME TypeInv, OutboxGrows
  PROVE  /\ Outgoing' = Outgoing \cup {outbox'[k].learning.of : k \in DOMAIN outbox' \ DOMAIN outbox}
         /\ Sent' = Sent
<1>1. /\ DOMAIN outbox \subseteq DOMAIN outbox'
      /\ \A k \in DOMAIN outbox : outbox'[k] = outbox[k] /\ copies'[k] = copies[k]
      /\ \A k \in DOMAIN outbox' \ DOMAIN outbox : copies'[k] = 0
  BY DEF OutboxGrows
<1>2. Outgoing' = Outgoing \cup {outbox'[k].learning.of : k \in DOMAIN outbox' \ DOMAIN outbox}
  BY <1>1 DEF Outgoing, JudgedIn
<1>3. {n \in DOMAIN outbox' : copies'[n] > 0} = {n \in DOMAIN outbox : copies[n] > 0}
  BY <1>1
<1>4. Sent' = Sent
  BY <1>1, <1>3 DEF Sent, JudgedIn
<1>5. QED
  BY <1>2, <1>4

LEMMA StoredPromises ==
  ASSUME TypeInv, PromiseInv, NEW v \in Evaluators, Stored(v)
  PROVE  \E a \in 1 .. MaxJudgements : Promise!Record(a)
<1> DEFINE j == judging[v]
           new == {outbox'[k].learning.of : k \in DOMAIN outbox' \ DOMAIN outbox}
<1>1. j \in Judgement /\ j # NoJudgement /\ Follows(history', history, j) /\ OutboxGrows /\ ready' = ready
  BY DEF Stored
<1>2. j.at \in 1 .. clock /\ clock <= MaxJudgements /\ \A i \in DOMAIN history : history[i].at # j.at
  BY <1>1 DEF PromiseInv, JudgedApart
<1>3. j.at \in 1 .. MaxJudgements
  BY <1>2, MemoryAssumption DEF TypeInv, TypeOK
<1>4. new \in {{}, {j.at}} /\ (j.kind = "unsafe" => new = {})
  BY StoredQueues
<1>5. /\ Recorded' = Recorded \cup {j.at} /\ Vouched' = Vouched
      /\ Unsafe' = Unsafe \cup (IF j.kind = "unsafe" THEN {j.at} ELSE {})
  BY <1>1, FollowsRecords
<1>6. Outgoing' = Outgoing \cup new /\ Sent' = Sent
  BY <1>1, GrowthQueues
<1>7. j.at \notin Recorded
  BY <1>2 DEF Recorded, TimesOf
<1> HIDE DEF j, new
<1>8. /\ j.at \notin Recorded /\ Recorded' = Recorded \cup {j.at}
      /\ \/ Unsafe' = Unsafe /\ Outgoing' \in {Outgoing, Outgoing \cup {j.at}}
         \/ Unsafe' = Unsafe \cup {j.at} /\ Outgoing' = Outgoing
      /\ UNCHANGED <<Sent, Vouched>>
  BY <1>4, <1>5, <1>6, <1>7
<1>9. Promise!Record(j.at)
  BY <1>8 DEF Promise!Record, Recorded, Unsafe, Outgoing, Sent, Vouched
<1>10. QED
  BY <1>3, <1>9

LEMMA RepairedPromises ==
  ASSUME TypeInv, PromiseInv, Repaired
  PROVE  \E a \in 1 .. MaxJudgements : Promise!Record(a)
<1>1. PICK j \in Judgement : j.at = clock + 1 /\ Follows(history', history, j)
  BY DEF Repaired
<1>2. clock < MaxJudgements /\ clock \in Nat /\ MaxJudgements \in Nat
      /\ UNCHANGED <<outbox, copies, ready>>
  BY MemoryAssumption DEF Repaired, TypeInv, TypeOK
<1>3. j.at \in 1 .. MaxJudgements /\ j.at \notin 1 .. clock
  BY <1>1, <1>2
<1>4. /\ Recorded' = Recorded \cup {j.at} /\ Vouched' = Vouched
      /\ Unsafe' = Unsafe \cup (IF j.kind = "unsafe" THEN {j.at} ELSE {})
  BY <1>1, <1>2, FollowsRecords
<1>5. Outgoing' = Outgoing /\ Sent' = Sent
  BY <1>2 DEF Outgoing, Sent, JudgedIn
<1>6. j.at \notin Recorded
  BY <1>3 DEF Recorded, TimesOf, PromiseInv, JudgedApart
<1>7. /\ j.at \notin Recorded /\ Recorded' = Recorded \cup {j.at}
      /\ \/ Unsafe' = Unsafe /\ Outgoing' \in {Outgoing, Outgoing \cup {j.at}}
         \/ Unsafe' = Unsafe \cup {j.at} /\ Outgoing' = Outgoing
      /\ UNCHANGED <<Sent, Vouched>>
  BY <1>4, <1>5, <1>6
<1>8. Promise!Record(j.at)
  BY <1>7 DEF Promise!Record, Recorded, Unsafe, Outgoing, Sent, Vouched
<1>9. QED
  BY <1>3, <1>8

LEMMA InsertPromises ==
  ASSUME TypeInv, PromiseInv, Insert
  PROVE  \E as \in SUBSET (1 .. MaxJudgements) : Promise!Queue(as)
<1> DEFINE new == {outbox'[k].learning.of : k \in DOMAIN outbox' \ DOMAIN outbox}
<1>1. OutboxGrows /\ UNCHANGED <<history, ready>> /\ new \subseteq TimesOf(scan)
  BY InsertQueues
<1>2. Outgoing' = Outgoing \cup new /\ Sent' = Sent
  BY <1>1, GrowthQueues
<1>3. Recorded' = Recorded /\ Unsafe' = Unsafe /\ Vouched' = Vouched
  BY <1>1 DEF Recorded, Unsafe, Vouched, TimesOf
<1>4. scan \subseteq DOMAIN history /\ clock \in Nat
  BY DEF TypeInv, TypeOK
<1>5. TimesOf(scan) \subseteq Recorded
  BY <1>4 DEF Recorded, TimesOf
<1>6. \A a \in TimesOf(scan) : a \notin Unsafe
  BY <1>4 DEF Unsafe, TimesOf, PromiseInv, JudgedApart, ScanIsSafe
<1>7. TimesOf(scan) \subseteq 1 .. MaxJudgements
  BY <1>4, MemoryAssumption DEF TimesOf, PromiseInv, JudgedApart
<1> HIDE DEF new
<1>8. Promise!Queue(new)
  <2>1. /\ new \subseteq Recorded \ Unsafe /\ Outgoing' = Outgoing \cup new
        /\ UNCHANGED <<Recorded, Unsafe, Sent, Vouched>>
    BY <1>1, <1>2, <1>3, <1>5, <1>6
  <2>2. QED
    BY <2>1 DEF Promise!Queue, Recorded, Unsafe, Outgoing, Sent, Vouched
<1>9. QED
  BY <1>1, <1>7, <1>8

LEMMA PostPromises ==
  ASSUME TypeInv, PromiseInv, NEW s \in Syncers, Post(s)
  PROVE  (\E a \in 1 .. MaxJudgements : Promise!Send(a)) \/ UNCHANGED Promise!promise
<1> DEFINE k == Head(sync[s].todo)
<1>1. /\ k \in DOMAIN outbox /\ copies' \in [DOMAIN outbox -> Nat]
      /\ copies'[k] \in {copies[k], copies[k] + 1}
      /\ \A i \in DOMAIN outbox \ {k} : copies'[i] = copies[i]
  BY PostPosts
<1>2. UNCHANGED <<history, outbox, ready>> /\ copies \in [DOMAIN outbox -> Nat] /\ clock \in Nat
  BY DEF Post, TypeInv, TypeOK
<1> HIDE DEF k
<1>3. UNCHANGED <<Recorded, Unsafe, Outgoing, Vouched>>
  BY <1>2 DEF Recorded, Unsafe, Outgoing, Vouched, TimesOf, JudgedIn
<1>4. CASE copies'[k] = copies[k]
  <2>1. \A i \in DOMAIN outbox : copies'[i] = copies[i]
    BY <1>1, <1>4
  <2>2. {n \in DOMAIN outbox' : copies'[n] > 0} = {n \in DOMAIN outbox : copies[n] > 0}
    BY <1>2, <2>1
  <2>3. Sent' = Sent
    BY <1>2, <2>2 DEF Sent, JudgedIn
  <2>4. QED
    BY <1>3, <2>3 DEF Promise!promise, Recorded, Unsafe, Outgoing, Sent, Vouched
<1>5. CASE copies'[k] = copies[k] + 1
  <2>1. copies'[k] > 0
    BY <1>1, <1>2, <1>5
  <2>2. {n \in DOMAIN outbox' : copies'[n] > 0} = {n \in DOMAIN outbox : copies[n] > 0} \cup {k}
    BY <1>1, <1>2, <2>1
  <2>3. Sent' = Sent \cup {JudgedIn(k)}
    BY <1>2, <2>2 DEF Sent, JudgedIn
  <2>4. JudgedIn(k) \in Outgoing
    BY <1>1 DEF Outgoing
  <2>5. JudgedIn(k) \in 1 .. MaxJudgements
    BY <1>1, <1>2, MemoryAssumption DEF JudgedIn, PromiseInv, JudgedApart, LearnedInTime
  <2>6. PICK a \in 1 .. MaxJudgements : a = JudgedIn(k)
    BY <2>5
  <2>7. Promise!Send(a)
    <3>1. /\ a \in Outgoing /\ Sent' = Sent \cup {a}
          /\ UNCHANGED <<Recorded, Unsafe, Outgoing, Vouched>>
      BY <1>3, <2>3, <2>4, <2>6
    <3>2. QED
      BY <3>1 DEF Promise!Send, Recorded, Unsafe, Outgoing, Sent, Vouched
  <2>8. QED
    BY <2>7
<1>6. QED
  BY <1>1, <1>4, <1>5

LEMMA ReportPromises ==
  ASSUME TypeInv, DeliveryInv, ReadyInv, PromiseInv, Report
  PROVE  (\E as \in SUBSET (1 .. MaxJudgements) : Promise!Vouch(as)) \/ UNCHANGED Promise!promise
<1>1. /\ UNCHANGED <<history, outbox, copies>> /\ sync[Cli].at = "report"
      /\ ready' = IF Settled THEN ready \cup scan ELSE ready
  BY DEF Report
<1>2. UNCHANGED <<Recorded, Unsafe, Outgoing, Sent>>
  BY <1>1 DEF Recorded, Unsafe, Outgoing, Sent, TimesOf, JudgedIn
<1>3. CASE Settled
  <2>1. \A i \in scan : history[i].at \in Sent
    BY <1>1, <1>3 DEF ReadyInv, ScanIsQueued, Settled, DeliveryInv, DeliveredIsStored, Sent, JudgedIn
  <2>2. TimesOf(scan) \subseteq Sent
    BY <2>1 DEF TimesOf
  <2>3. Vouched' = Vouched \cup TimesOf(scan)
    BY <1>1, <1>3 DEF Vouched, TimesOf
  <2>4. TimesOf(scan) \in SUBSET (1 .. MaxJudgements)
    BY MemoryAssumption DEF TimesOf, PromiseInv, JudgedApart, TypeInv, TypeOK
  <2>5. Promise!Vouch(TimesOf(scan))
    BY <1>2, <2>2, <2>3 DEF Promise!Vouch, Recorded, Unsafe, Outgoing, Sent, Vouched
  <2>6. QED
    BY <2>4, <2>5
<1>4. CASE ~Settled
  <2>1. Vouched' = Vouched
    BY <1>1, <1>4 DEF Vouched, TimesOf
  <2>2. QED
    BY <1>2, <2>1 DEF Promise!promise, Recorded, Unsafe, Outgoing, Sent, Vouched
<1>5. QED
  BY <1>3, <1>4

LEMMA PromiseStep ==
  ASSUME TypeInv, DeliveryInv, ReadyInv, PromiseInv, [Next]_vars
  PROVE  [Promise!Next]_(Promise!promise)
<1>1. ASSUME NEW v \in Evaluators, Stored(v) PROVE Promise!Next
  BY <1>1, StoredPromises DEF Promise!Next
<1>2. CASE Repaired
  BY <1>2, RepairedPromises DEF Promise!Next
<1>3. CASE Judged \/ Unmoved
  <2>1. /\ UNCHANGED <<history, copies, ready>> /\ DOMAIN outbox' = DOMAIN outbox
        /\ \A k \in DOMAIN outbox : outbox'[k].learning = outbox[k].learning
    BY <1>3 DEF Judged, Judge, Unmoved
  <2>2. UNCHANGED <<Recorded, Unsafe, Vouched>>
    BY <2>1 DEF Recorded, Unsafe, Vouched, TimesOf
  <2>3. UNCHANGED <<Outgoing, Sent>>
    BY <2>1 DEF Outgoing, Sent, JudgedIn
  <2>4. QED
    BY <2>2, <2>3 DEF Promise!promise, Recorded, Unsafe, Outgoing, Sent, Vouched
<1>4. CASE Insert
  BY <1>4, InsertPromises DEF Promise!Next
<1>5. CASE Report
  BY <1>5, ReportPromises DEF Promise!Next
<1>6. ASSUME NEW s \in Syncers, Post(s) PROVE [Promise!Next]_(Promise!promise)
  BY <1>6, PostPromises DEF Promise!Next
<1>7. QED
  BY <1>1, <1>2, <1>3, <1>4, <1>5, <1>6, PromiseSteps

(* However judgements are stored and repaired, deliveries fail and processes *)
(* die, the memory does nothing that AdvisoryMemory does not allow: it queues *)
(* no unsafe text, sends nothing that is not queued, forgets nothing and     *)
(* vouches only for what is sent (enqueue_learning_safely, deliver,          *)
(* initialize_research_memory).                                              *)
THEOREM MemoryImplementsPromise == Spec => PromiseHolds
<1>1. Init => Promise!Init
  BY DEF Init, Promise!Init, TimesOf, JudgedIn
<1>2. TypeInv /\ DeliveryInv /\ ReadyInv /\ PromiseInv /\ [Next]_vars => [Promise!Next]_(Promise!promise)
  BY PromiseStep
<1>3. QED
  BY <1>1, <1>2, TypeInvHolds, DeliveryInvHolds, ReadyInvHolds, PromiseInvHolds, PTL
     DEF Spec, PromiseHolds, Promise!Spec
=============================================================================
