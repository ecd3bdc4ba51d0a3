-------------------------- MODULE AnalysisCohorts --------------------------
(***************************************************************************)
(* How the supervisor cuts the rows of one analysis turn into cohorts         *)
(* (supervisor.py _balanced_chunks): no cohort is larger than                 *)
(* analysis_cohort_max, their sizes differ by at most one, and they are        *)
(* consecutive slices of the list.  The hpo rows and the others are cut         *)
(* separately.  Pure arithmetic, proved here for every length and limit.        *)
(***************************************************************************)
EXTENDS Integers, TLAPS

\* The number of cohorts of n rows.
Count(n, max) == (n + max - 1) \div max

\* divmod(len(rows), count)
Base(n, max)  == n \div Count(n, max)
Extra(n, max) == n % Count(n, max)

\* The first `extra` cohorts have one row more than the others.
Size(n, max, k) == Base(n, max) + (IF k < Extra(n, max) THEN 1 ELSE 0)

\* The offset at which cohort k begins, after k rounds of the loop.
Offset(n, max, k) ==
    k * Base(n, max) + (IF k < Extra(n, max) THEN k ELSE Extra(n, max))

-----------------------------------------------------------------------------
LEMMA Division ==
    ASSUME NEW a \in Nat, NEW b \in Nat \ {0}
    PROVE  /\ a \div b \in Nat /\ a % b \in 0 .. b - 1
           /\ a = b * (a \div b) + (a % b)
<1>1. a \div b \in Int /\ a % b \in 0 .. b - 1
  OBVIOUS
<1>2. a = b * (a \div b) + (a % b)
  OBVIOUS
<1>3. a \div b >= 0
  OBVIOUS
<1>4. QED
  BY <1>1, <1>2, <1>3

LEMMA Cancel ==
    ASSUME NEW a \in Int, NEW b \in Int, NEW c \in Nat \ {0}, c * a < c * b
    PROVE  a < b
<1>1. a >= b => c * a >= c * b
  OBVIOUS
<1>2. QED
  BY <1>1

\* There are as many cohorts as the limit requires, and no more.
LEMMA CountFits ==
    ASSUME NEW n \in Nat \ {0}, NEW max \in Nat \ {0}
    PROVE  /\ Count(n, max) \in Nat \ {0}
           /\ n <= Count(n, max) * max /\ (Count(n, max) - 1) * max < n
<1> DEFINE c == Count(n, max)
           r == (n + max - 1) % max
<1>1. c \in Nat /\ r \in 0 .. max - 1 /\ n + max - 1 = max * c + r
  <2>1. n + max - 1 \in Nat
    OBVIOUS
  <2>2. QED
    BY <2>1, Division DEF Count
<1> HIDE DEF c, r
<1>2. max * c = c * max /\ (c - 1) * max = c * max - max
  BY <1>1
<1>3. n <= c * max /\ (c - 1) * max < n
  BY <1>1, <1>2
<1>4. c # 0
  BY <1>1, <1>3
<1>5. QED
  BY <1>1, <1>3, <1>4 DEF c

\* The cohorts are slices that follow one another from the first row to the last,
\* none is empty or larger than the limit, and their sizes differ by one at most.
THEOREM CohortsFit ==
    ASSUME NEW n \in Nat \ {0}, NEW max \in Nat \ {0}
    PROVE  /\ Offset(n, max, 0) = 0 /\ Offset(n, max, Count(n, max)) = n
           /\ \A k \in 0 .. Count(n, max) - 1 :
                 /\ Offset(n, max, k + 1) = Offset(n, max, k) + Size(n, max, k)
                 /\ Size(n, max, k) \in 1 .. max
                 /\ \A j \in 0 .. Count(n, max) - 1 : Size(n, max, k) - Size(n, max, j) <= 1
<1> DEFINE c == Count(n, max)
           b == Base(n, max)
           x == Extra(n, max)
<1>1. c \in Nat \ {0} /\ n <= c * max /\ (c - 1) * max < n
  BY CountFits
<1>2. b \in Nat /\ x \in 0 .. c - 1 /\ n = c * b + x
  BY <1>1, Division DEF Base, Extra
<1> HIDE DEF c, b, x
<1>3. b >= 1
  <2>1. c <= n
    <3>1. (c - 1) * max >= c - 1
      BY <1>1
    <3>2. QED
      BY <1>1, <3>1
  <2>2. b = 0 => n < c
    BY <1>1, <1>2
  <2>3. QED
    BY <1>1, <1>2, <2>1, <2>2
<1>4. b <= max /\ (x > 0 => b + 1 <= max)
  <2>1. c * b < c * (max + 1)
    BY <1>1, <1>2
  <2>2. b < max + 1
    BY <1>1, <1>2, <2>1, Cancel
  <2>3. x > 0 => c * b < c * max
    BY <1>1, <1>2
  <2>4. x > 0 => b < max
    BY <1>1, <1>2, <2>3, Cancel
  <2>5. QED
    BY <1>2, <2>2, <2>4
<1>5. \A k : Size(n, max, k) = b + (IF k < x THEN 1 ELSE 0)
  BY DEF Size, b, x
<1>6. \A k : Offset(n, max, k) = k * b + (IF k < x THEN k ELSE x)
  BY DEF Offset, b, x
<1>7. Offset(n, max, 0) = 0 /\ Offset(n, max, c) = n
  BY <1>1, <1>2, <1>6
<1>8. ASSUME NEW k \in 0 .. c - 1
      PROVE  Offset(n, max, k + 1) = Offset(n, max, k) + Size(n, max, k)
  <2>1. (k + 1) * b = k * b + b /\ k * b \in Int
    BY <1>1, <1>2
  <2>2. k + 1 < x \/ k + 1 = x \/ x <= k
    BY <1>1, <1>2
  <2>3. QED
    BY <1>1, <1>2, <1>5, <1>6, <2>1, <2>2
<1>9. ASSUME NEW k \in 0 .. c - 1 PROVE Size(n, max, k) \in 1 .. max
  BY <1>1, <1>2, <1>3, <1>4, <1>5
<1>10. \A k, j \in 0 .. c - 1 : Size(n, max, k) - Size(n, max, j) <= 1
  BY <1>2, <1>5
<1>11. QED
  BY <1>7, <1>8, <1>9, <1>10 DEF c

\* Cutting never goes below analysis_cohort_min when a turn has at least so many
\* rows and the limits are as far apart as the default ones, 4 and 8.  The policy
\* only demands min <= max: 9 rows under 6 and 8 become cohorts of 5 and 4.
THEOREM CohortsAreLargeEnough ==
    ASSUME NEW n \in Nat, NEW max \in Nat \ {0}, NEW min \in Nat \ {0},
           min <= n, 2 * min <= max + 1, NEW k \in 0 .. Count(n, max) - 1
    PROVE  Size(n, max, k) >= min
<1> DEFINE c == Count(n, max)
           b == Base(n, max)
           x == Extra(n, max)
<1>1. c \in Nat \ {0} /\ n <= c * max /\ (c - 1) * max < n
  BY CountFits
<1>2. b \in Nat /\ x \in 0 .. c - 1 /\ n = c * b + x
  BY <1>1, Division DEF Base, Extra
<1>3. Size(n, max, k) \in Int /\ Size(n, max, k) >= b
  BY <1>2 DEF Size
<1> HIDE DEF c, b, x
<1>4. CASE c = 1
  <2>1. x = 0 /\ n = b
    BY <1>2, <1>4
  <2>2. QED
    BY <1>2, <1>3, <2>1
<1>5. CASE c >= 2
  <2>1. (c - 1) * (2 * min - 1) <= (c - 1) * max
    BY <1>1, <1>5
  <2>2. c * b + x >= (c - 1) * (2 * min - 1) + 1
    BY <1>1, <1>2, <2>1
  <2>3. (c - 2) * (min - 1) >= 0
    BY <1>1, <1>5
  <2>4. (c - 1) * (2 * min - 1) + 1 = c * min + (c - 2) * (min - 1) - (c - 1) + 1 + (c - 2)
    BY <1>1
  <2>5. c * b + x >= c * min
    BY <1>1, <1>2, <2>2, <2>3, <2>4
  <2>6. c * min < c * (b + 1)
    BY <1>1, <1>2, <2>5
  <2>7. min < b + 1
    BY <1>1, <1>2, <2>6, Cancel
  <2>8. QED
    BY <1>2, <1>3, <2>7
<1>6. QED
  BY <1>1, <1>4, <1>5
=============================================================================
