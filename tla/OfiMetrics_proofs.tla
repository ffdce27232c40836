-------------------------- MODULE OfiMetrics_proofs --------------------------
(***************************************************************************)
(* Proofs about the metrics of one symbol, for any buckets, messages and    *)
(* bounds.  What a bucket holds at any moment is counted from the times     *)
(* that were observed; what a scrape shows is taken together with what it   *)
(* has yet to read, which changes only when the feed changes a metric.      *)
(***************************************************************************)
EXTENDS OfiMetrics, SequenceTheorems, FiniteSetTheorems, Folding_proofs, TLAPS

\* The observations that have reached bucket i: all but the one whose place has not.
Reached(i) ==
    IF feed.pc = "record" /\ feed.bucket <= i THEN Len(observed) - 1 ELSE Len(observed)

\* The first n observations that fall into bucket i.
Falling(s, n, i) == {k \in 1 .. n : InBucket(s[k], i)}

\* How far the feed is with the observation under way, if there is one.
CountersOK ==
    /\ Len(observed) <= MaxUpdates
    /\ feed.pc = "applied" => Len(observed) < MaxUpdates
    /\ feed.pc \in {"record", "count"} => Len(observed) > 0
    /\ feed.pc = "record" => feed.us = observed[Len(observed)]
    /\ msgCount = IF feed.pc \in {"record", "count"} THEN Len(observed) - 1 ELSE Len(observed)
    /\ processingUsSum = Sum(observed)
    /\ \A i \in Buckets : processingBuckets[i] = Cardinality(Falling(observed, Reached(i), i))

\* What the scrape shows in line n, or will show if its metric stays as it is now.
Shown(n, current) == IF n <= Len(scrape) THEN scrape[n] ELSE current

ShownBucket(i) == Shown(i + 2, processingBuckets[i])

\* A scrape is consistent at every moment, with the metrics in the place of the lines
\* it has yet to read.
ScrapeOK ==
    /\ ShownBucket(Inf) \in 0 .. Len(observed)
    /\ \A i, j \in Buckets : i < j => ShownBucket(i) <= ShownBucket(j) + 1
    /\ Shown(1, msgCount) <= ShownBucket(Inf)
    /\ ShownBucket(Inf) <= Shown(Inf + 4, processingBuckets[Inf])
    /\ Sum(First(observed, ShownBucket(Inf))) <= Shown(Inf + 3, processingUsSum)

\* What the callback is about to add was the last to be sent, and is nothing when no
\* delta counts.
AccumulatorOK ==
    /\ feed.pc = "accumulate" =>
          /\ firstSent < Len(sent) /\ feed.ofi = sent[Len(sent)]
          /\ ~feed.counts => feed.ofi = 0
    /\ AccumulatorIsSent

\* Only an update or a snapshot of a book that is there touches the age.
AgeOK ==
    /\ feed.pc \in {"applied", "record", "count", "touch", "callback", "accumulate",
                    "touchSnapshot"}
          => applied
    /\ lastUpdateTimeMs # 0 => applied \/ feed.pc = "forgetAge"

IInv == TypeOK /\ CountersOK /\ ScrapeOK /\ AccumulatorOK /\ AgeOK

-----------------------------------------------------------------------------
(* Sums.                                                                   *)

\* A sum is the last of the partial sums.
LEMMA SumUnfolds ==
    ASSUME NEW q \in Seq(Int)
    PROVE  \E h \in [0 .. Len(q) -> Int] :
              /\ h[0] = 0 /\ \A i \in 1 .. Len(q) : h[i] = h[i - 1] + q[i]
              /\ Sum(q) = h[Len(q)]
<1> DEFINE n == Len(q)
           Step == [i \in 1 .. n |-> [x \in Int |-> Plus(x, q[i])]]
           Body(F) == [s \in SUBSET (1 .. n) |->
                         IF s = {} THEN 0 ELSE Plus(F[s \ {Max(s)}], q[Max(s)])]
           Chosen == CHOOSE F : F = Body(F)
<1>0. n \in Nat /\ DOMAIN q = 1 .. n /\ \A i \in 1 .. n : q[i] \in Int
  BY LenProperties, ElementOfSeq
<1>1. Sum(q) = Chosen[1 .. n]
  BY <1>0 DEF Sum, FoldLeft, MapThenFoldSet
<1>2. Step \in [1 .. n -> [Int -> Int]]
  BY <1>0 DEF Plus
<1>3. PICK F \in [SUBSET (1 .. n) -> Int] : IsIteration(F, n, 0, Step)
  <2>1. 0 \in Int OBVIOUS
  <2> HIDE DEF Step
  <2> QED BY <1>0, <1>2, <2>1, IterationExists
<1>4. F = Body(F)
  <2>1. ASSUME NEW s \in SUBSET (1 .. n), s # {}
        PROVE  Step[Max(s)][F[s \ {Max(s)}]] = Plus(F[s \ {Max(s)}], q[Max(s)])
    <3>1. Max(s) \in 1 .. n BY <1>0, <2>1, MaxOfInterval
    <3>2. F[s \ {Max(s)}] \in Int BY <1>3
    <3> QED BY <3>1, <3>2
  <2> QED BY <1>3, <2>1 DEF IsIteration
<1>5. Chosen = Body(Chosen)
  <2> HIDE DEF Body
  <2> QED BY <1>4
<1> HIDE DEF Chosen
<1>6. \A s \in SUBSET (1 .. n) :
         Chosen[s] = IF s = {} THEN 0 ELSE Plus(Chosen[s \ {Max(s)}], q[Max(s)])
  <2> DEFINE rhs(s) == IF s = {} THEN 0 ELSE Plus(Chosen[s \ {Max(s)}], q[Max(s)])
  <2>1. Chosen = [s \in SUBSET (1 .. n) |-> rhs(s)] BY <1>5
  <2> HIDE DEF rhs
  <2>2. \A s \in SUBSET (1 .. n) : Chosen[s] = rhs(s) BY <2>1
  <2> QED BY <2>2 DEF rhs
<1> DEFINE h == [i \in 0 .. n |-> Chosen[1 .. i]]
<1>7. h[0] = 0
  <2>1. 1 .. 0 = {} /\ 1 .. 0 \in SUBSET (1 .. n) /\ 0 \in 0 .. n BY <1>0
  <2> QED BY <1>6, <2>1
<1>8. ASSUME NEW i \in 1 .. n PROVE h[i] = Plus(h[i - 1], q[i])
  <2>1. 1 .. i \in SUBSET (1 .. n) /\ i \in 1 .. i /\ (1 .. i) \ {i} = 1 .. i - 1 BY <1>0
  <2>2. Max(1 .. i) = i
    <3>1. \A j \in 1 .. i : j <= i OBVIOUS
    <3> QED BY <1>0, <2>1, <3>1, MaxOfInterval
  <2>3. i \in 0 .. n /\ i - 1 \in 0 .. n BY <1>0
  <2> QED BY <1>6, <2>1, <2>2, <2>3
<1>9. \A i \in 0 .. n : h[i] \in Int
  <2> DEFINE T == {i \in 0 .. n : h[i] \in Int}
  <2> HIDE DEF h
  <2>1. 0 \in T BY <1>0, <1>7
  <2>2. ASSUME NEW m \in 0 .. n, m \in T, m < n PROVE m + 1 \in T
    <3>1. m + 1 \in 1 .. n /\ (m + 1) - 1 = m BY <1>0, <2>2
    <3>2. h[m + 1] = h[m] + q[m + 1] BY <1>8, <3>1 DEF Plus
    <3>3. q[m + 1] \in Int /\ h[m] \in Int BY <1>0, <2>2, <3>1
    <3> QED BY <3>1, <3>2, <3>3
  <2>3. 0 .. n \subseteq T
    <3> HIDE DEF T
    <3> QED BY <1>0, <2>1, <2>2, InductionUpTo
  <2> QED BY <2>3
<1>10. h[n] = Chosen[1 .. n] BY <1>0
<1>11. h \in [0 .. n -> Int]
  <2> HIDE DEF Chosen
  <2> QED BY <1>9
<1> HIDE DEF h
<1>12. /\ h[0] = 0 /\ \A i \in 1 .. n : h[i] = h[i - 1] + q[i]
       /\ Sum(q) = h[n]
  BY <1>1, <1>7, <1>8, <1>10 DEF Plus
<1> QED BY <1>11, <1>12

\* A sum is an integer, that of nothing 0, and grows by what is appended.
LEMMA SumProperties ==
    /\ Sum(<< >>) = 0
    /\ \A q \in Seq(Int) : Sum(q) \in Int
    /\ \A q \in Seq(Int), x \in Int : Sum(Append(q, x)) = Sum(q) + x
<1>1. Sum(<< >>) = 0
  <2>1. << >> \in Seq(Int) /\ Len(<< >>) = 0 OBVIOUS
  <2> QED BY <2>1, SumUnfolds
<1>2. ASSUME NEW q \in Seq(Int) PROVE Sum(q) \in Int
  <2>1. PICK h \in [0 .. Len(q) -> Int] : Sum(q) = h[Len(q)] BY SumUnfolds
  <2>2. Len(q) \in 0 .. Len(q) BY LenProperties
  <2> QED BY <2>1, <2>2
<1>3. ASSUME NEW q \in Seq(Int), NEW x \in Int PROVE Sum(Append(q, x)) = Sum(q) + x
  <2> DEFINE n == Len(q)
             r == Append(q, x)
  <2>0. /\ n \in Nat /\ r \in Seq(Int) /\ Len(r) = n + 1
        /\ r[n + 1] = x /\ \A i \in 1 .. n : r[i] = q[i]
    BY LenProperties, AppendProperties
  <2>1. PICK g \in [0 .. n -> Int] :
          /\ g[0] = 0 /\ \A i \in 1 .. n : g[i] = g[i - 1] + q[i]
          /\ Sum(q) = g[n]
    BY SumUnfolds
  <2> HIDE DEF n, r
  <2>2. PICK h \in [0 .. n + 1 -> Int] :
          /\ h[0] = 0 /\ \A i \in 1 .. n + 1 : h[i] = h[i - 1] + r[i]
          /\ Sum(r) = h[n + 1]
    BY <2>0, SumUnfolds
  <2> DEFINE T == {i \in 0 .. n : h[i] = g[i]}
  <2>3. 0 \in T BY <2>0, <2>1, <2>2
  <2>4. ASSUME NEW m \in 0 .. n, m \in T, m < n PROVE m + 1 \in T
    <3>1. m + 1 \in 1 .. n /\ m + 1 \in 1 .. n + 1 /\ (m + 1) - 1 = m BY <2>0, <2>4
    <3>2. g[m + 1] = g[m] + q[m + 1] BY <2>1, <3>1
    <3>3. h[m + 1] = h[m] + r[m + 1] BY <2>2, <3>1
    <3>4. h[m] = g[m] /\ r[m + 1] = q[m + 1] BY <2>0, <2>4, <3>1
    <3>5. m + 1 \in 0 .. n BY <2>0, <2>4
    <3> QED BY <3>2, <3>3, <3>4, <3>5
  <2>5. 0 .. n \subseteq T
    <3> HIDE DEF T
    <3> QED BY <2>0, <2>3, <2>4, InductionUpTo
  <2>6. h[n] = g[n] BY <2>0, <2>5
  <2>7. h[n + 1] = h[n] + x
    <3>1. n + 1 \in 1 .. n + 1 /\ (n + 1) - 1 = n BY <2>0
    <3> QED BY <2>0, <2>2, <3>1
  <2> QED BY <2>1, <2>2, <2>6, <2>7 DEF r
<1> QED BY <1>1, <1>2, <1>3

\* The sums of the first elements grow when none is negative.
LEMMA SumsGrow ==
    ASSUME NEW q \in Seq(Nat), NEW n \in 0 .. Len(q)
    PROVE  Sum(First(q, n)) <= Sum(q)
<1> DEFINE k == Len(q)
           T == {i \in 0 .. k : i < n \/ Sum(First(q, n)) <= Sum(First(q, i))}
<1>0. k \in Nat /\ n \in Nat /\ n <= k /\ q \in Seq(Int)
  BY LenProperties, SeqMonotonic
<1>1. ASSUME NEW i \in 0 .. k PROVE First(q, i) \in Seq(Int)
  BY <1>0, <1>1, SubSeqProperties, LenProperties DEF First
<1>2. ASSUME NEW i \in 0 .. k PROVE Sum(First(q, i)) \in Int
  BY <1>1, SumProperties
<1>3. 0 \in T
  <2>1. CASE n = 0 BY <1>0, <1>2, <2>1
  <2>2. CASE n # 0 BY <1>0, <2>2
  <2> QED BY <2>1, <2>2
<1>4. ASSUME NEW m \in 0 .. k, m \in T, m < k PROVE m + 1 \in T
  <2>1. m + 1 \in 1 .. k /\ m + 1 \in 0 .. k BY <1>0, <1>4
  <2>2. First(q, m + 1) = Append(First(q, m), q[m + 1])
    <3>1. 1 \in 1 .. k /\ (m + 1) - 1 = m BY <1>0, <2>1
    <3>2. First(q, m + 1) = First(q, m) \o <<q[m + 1]>>
      BY <1>0, <2>1, <3>1, SubSeqRecursiveSecond DEF First
    <3>3. m \in 0 .. k BY <1>4
    <3>4. First(q, m) \in Seq(Int) /\ q[m + 1] \in Int BY <1>0, <1>1, <2>1, <3>3, ElementOfSeq
    <3> QED BY <3>2, <3>4, AppendIsConcat
  <2>3. q[m + 1] \in Nat BY <1>0, <2>1, ElementOfSeq
  <2>4. Sum(First(q, m + 1)) = Sum(First(q, m)) + q[m + 1]
    <3>1. First(q, m) \in Seq(Int) /\ q[m + 1] \in Int BY <1>1, <1>4, <2>3
    <3> QED BY <2>2, <3>1, SumProperties
  <2>5. CASE m + 1 < n BY <2>1, <2>5
  <2>6. CASE m + 1 = n BY <1>2, <2>1, <2>6
  <2>7. CASE m >= n
    <3>1. Sum(First(q, n)) <= Sum(First(q, m)) BY <1>0, <1>4, <2>7
    <3>2. Sum(First(q, n)) \in Int /\ Sum(First(q, m)) \in Int BY <1>2
    <3>3. Sum(First(q, n)) <= Sum(First(q, m + 1)) BY <2>3, <2>4, <3>1, <3>2
    <3> QED BY <2>1, <3>3
  <2> QED BY <1>0, <2>5, <2>6, <2>7
<1>5. 0 .. k \subseteq T
  <2> HIDE DEF T
  <2> QED BY <1>0, <1>3, <1>4, InductionUpTo
<1>6. k \in T BY <1>0, <1>5
<1>7. First(q, k) = q BY SubSeqFull DEF First
<1> QED BY <1>0, <1>6, <1>7

-----------------------------------------------------------------------------
(* Order-flow imbalance.                                                   *)

DeltaType == [isBid : BOOLEAN, deltaQty : Word, counts : BOOLEAN]

\* What saturates is a word, and exact when the true sum is one.
LEMMA CheckedAddition ==
    ASSUME NEW a \in Word, NEW b \in Word
    PROVE  /\ checkedAdd(a, b) \in Word /\ checkedSubtract(a, b) \in Word
           /\ a + b \in Word => checkedAdd(a, b) = a + b
           /\ checkedAdd(a, 0) = a
BY WordAssumption DEF Word, WordMin, checkedAdd, checkedSubtract

\* The sum of a message is a word, and 0 when none of its deltas counts.
LEMMA OfiOfMessage ==
    ASSUME NEW q \in Seq(DeltaType)
    PROVE  /\ OfiOf(q) \in Word
           /\ (\A i \in DOMAIN q : ~q[i].counts) => OfiOf(q) = 0
<1> DEFINE n == Len(q)
           Step == [i \in 1 .. n |-> [x \in Word |-> Added(x, q[i])]]
           Body(F) == [s \in SUBSET (1 .. n) |->
                         IF s = {} THEN 0 ELSE Added(F[s \ {Max(s)}], q[Max(s)])]
           Chosen == CHOOSE F : F = Body(F)
<1>0. n \in Nat /\ DOMAIN q = 1 .. n /\ \A i \in 1 .. n : q[i] \in DeltaType
  BY LenProperties, ElementOfSeq
<1>1. OfiOf(q) = Chosen[1 .. n]
  BY <1>0 DEF OfiOf, FoldLeft, MapThenFoldSet
<1>2. \A x \in Word : \A i \in 1 .. n :
         Added(x, q[i]) \in Word /\ (~q[i].counts => Added(x, q[i]) = x)
  <2> SUFFICES ASSUME NEW x \in Word, NEW i \in 1 .. n
               PROVE  Added(x, q[i]) \in Word /\ (~q[i].counts => Added(x, q[i]) = x)
    OBVIOUS
  <2>1. q[i] \in DeltaType BY <1>0
  <2>2. q[i].deltaQty \in Word BY <2>1 DEF DeltaType
  <2> QED BY <2>2, CheckedAddition DEF Added
<1>3. Step \in [1 .. n -> [Word -> Word]]
  BY <1>2
<1>4. 0 \in Word BY WordAssumption DEF Word, WordMin
<1>5. PICK F \in [SUBSET (1 .. n) -> Word] : IsIteration(F, n, 0, Step)
  <2> HIDE DEF Step
  <2> QED BY <1>0, <1>3, <1>4, IterationExists
<1>6. F = Body(F)
  <2>1. ASSUME NEW s \in SUBSET (1 .. n), s # {}
        PROVE  Step[Max(s)][F[s \ {Max(s)}]] = Added(F[s \ {Max(s)}], q[Max(s)])
    <3>1. Max(s) \in 1 .. n BY <1>0, <2>1, MaxOfInterval
    <3>2. F[s \ {Max(s)}] \in Word BY <1>5
    <3> QED BY <3>1, <3>2
  <2> QED BY <1>5, <2>1 DEF IsIteration
<1>7. Chosen = Body(Chosen)
  <2> HIDE DEF Body
  <2> QED BY <1>6
<1> HIDE DEF Chosen
<1>8. \A s \in SUBSET (1 .. n) :
         Chosen[s] = IF s = {} THEN 0 ELSE Added(Chosen[s \ {Max(s)}], q[Max(s)])
  <2> DEFINE rhs(s) == IF s = {} THEN 0 ELSE Added(Chosen[s \ {Max(s)}], q[Max(s)])
  <2>1. Chosen = [s \in SUBSET (1 .. n) |-> rhs(s)] BY <1>7
  <2> HIDE DEF rhs
  <2>2. \A s \in SUBSET (1 .. n) : Chosen[s] = rhs(s) BY <2>1
  <2> QED BY <2>2 DEF rhs
<1> DEFINE h == [i \in 0 .. n |-> Chosen[1 .. i]]
<1>9. h[0] = 0
  <2>1. 1 .. 0 = {} /\ 1 .. 0 \in SUBSET (1 .. n) /\ 0 \in 0 .. n BY <1>0
  <2> QED BY <1>8, <2>1
<1>10. ASSUME NEW i \in 1 .. n PROVE h[i] = Added(h[i - 1], q[i])
  <2>1. 1 .. i \in SUBSET (1 .. n) /\ i \in 1 .. i /\ (1 .. i) \ {i} = 1 .. i - 1 BY <1>0
  <2>2. Max(1 .. i) = i
    <3>1. \A j \in 1 .. i : j <= i OBVIOUS
    <3> QED BY <1>0, <2>1, <3>1, MaxOfInterval
  <2>3. i \in 0 .. n /\ i - 1 \in 0 .. n BY <1>0
  <2> QED BY <1>8, <2>1, <2>2, <2>3
<1>11. h[n] = OfiOf(q) BY <1>0, <1>1
<1> HIDE DEF h
<1> DEFINE T == {i \in 0 .. n : h[i] \in Word /\ ((\A j \in 1 .. n : ~q[j].counts) => h[i] = 0)}
<1>12. 0 \in T BY <1>0, <1>4, <1>9
<1>13. ASSUME NEW m \in 0 .. n, m \in T, m < n PROVE m + 1 \in T
  <2>1. m + 1 \in 1 .. n /\ m + 1 \in 0 .. n /\ (m + 1) - 1 = m BY <1>0, <1>13
  <2>2. h[m + 1] = Added(h[m], q[m + 1]) BY <1>10, <2>1
  <2>3. h[m] \in Word /\ ((\A j \in 1 .. n : ~q[j].counts) => h[m] = 0) BY <1>13
  <2> QED BY <1>2, <2>1, <2>2, <2>3
<1>14. 0 .. n \subseteq T
  <2> HIDE DEF T
  <2> QED BY <1>0, <1>12, <1>13, InductionUpTo
<1>15. n \in T BY <1>0, <1>14
<1> QED BY <1>0, <1>11, <1>15

-----------------------------------------------------------------------------
(* Buckets and lines.                                                      *)

\* There is one bucket more than bounds, and a time in a bucket is in all that follow.
LEMMA BucketsAscend ==
    /\ Inf \in Nat \ {0} /\ Inf \in Buckets /\ DOMAIN BucketBounds = 1 .. Inf - 1
    /\ \A us \in Int : InBucket(us, Inf)
    /\ \A us \in Int, i, j \in Buckets : i < j /\ InBucket(us, i) => InBucket(us, j)
<1>1. Len(BucketBounds) \in Nat /\ DOMAIN BucketBounds = 1 .. Len(BucketBounds)
  BY LenProperties
<1>2. /\ Inf \in Nat \ {0} /\ Inf \in Buckets /\ DOMAIN BucketBounds = 1 .. Inf - 1
  BY <1>1 DEF Inf, Buckets
<1>3. ASSUME NEW us \in Int, NEW i \in Buckets, NEW j \in Buckets, i < j, InBucket(us, i)
      PROVE  InBucket(us, j)
  <2>1. CASE j = Inf BY <2>1 DEF InBucket
  <2>2. CASE j # Inf
    <3>1. i \in DOMAIN BucketBounds /\ j \in DOMAIN BucketBounds
      BY <1>2, <1>3, <2>2 DEF Buckets
    <3>2. us <= BucketBounds[i] BY <1>2, <1>3, <3>1 DEF InBucket
    <3>3. BucketBounds[i] <= BucketBounds[j] BY <1>3, <3>1, MetricsAssumption
    <3>4. BucketBounds[i] \in Nat /\ BucketBounds[j] \in Nat
      BY <1>1, <3>1, ElementOfSeq, MetricsAssumption
    <3> QED BY <3>2, <3>3, <3>4 DEF InBucket
  <2> QED BY <2>1, <2>2
<1> QED BY <1>2, <1>3 DEF InBucket

\* The first observations that fall into a bucket are finitely many ...
LEMMA FallingIsFinite ==
    ASSUME NEW s \in Seq(Nat), NEW n \in 0 .. Len(s), NEW i \in Buckets
    PROVE  /\ IsFiniteSet(Falling(s, n, i))
           /\ Cardinality(Falling(s, n, i)) \in 0 .. n
           /\ Cardinality(Falling(s, n, Inf)) = n
<1>1. n \in Nat /\ IsFiniteSet(1 .. n) /\ Cardinality(1 .. n) = n
  <2>1. Len(s) \in Nat BY LenProperties
  <2>2. n \in Nat BY <2>1
  <2>3. Cardinality(1 .. n) = IF 1 > n THEN 0 ELSE n - 1 + 1 BY <2>2, FS_Interval
  <2>4. IsFiniteSet(1 .. n) BY <2>2, FS_Interval
  <2> QED BY <2>2, <2>3, <2>4
<1>2. Falling(s, n, i) \subseteq 1 .. n BY DEF Falling
<1>3. /\ IsFiniteSet(Falling(s, n, i)) /\ Cardinality(Falling(s, n, i)) \in Nat
      /\ Cardinality(Falling(s, n, i)) <= n
  BY <1>1, <1>2, FS_Subset, FS_CardinalityType
<1>4. Falling(s, n, Inf) = 1 .. n
  <2> SUFFICES ASSUME NEW k \in 1 .. n PROVE InBucket(s[k], Inf)
    BY DEF Falling
  <2> QED BY DEF InBucket
<1> QED BY <1>1, <1>3, <1>4

\* ... one more is in the set or not ...
LEMMA FallingNext ==
    ASSUME NEW s \in Seq(Nat), NEW n \in 1 .. Len(s), NEW i \in Buckets
    PROVE  Cardinality(Falling(s, n, i)) =
              IF InBucket(s[n], i) THEN Cardinality(Falling(s, n - 1, i)) + 1
              ELSE Cardinality(Falling(s, n - 1, i))
<1>0. n \in Nat /\ n - 1 \in 0 .. Len(s) /\ 1 .. n = (1 .. n - 1) \cup {n} /\ n \notin 1 .. n - 1
  BY LenProperties
<1>1. IsFiniteSet(Falling(s, n - 1, i)) BY <1>0, FallingIsFinite
<1>2. CASE InBucket(s[n], i)
  <2>1. Falling(s, n, i) = Falling(s, n - 1, i) \cup {n} BY <1>0, <1>2 DEF Falling
  <2>2. n \notin Falling(s, n - 1, i) BY <1>0 DEF Falling
  <2> QED BY <1>1, <1>2, <2>1, <2>2, FS_AddElement
<1>3. CASE ~InBucket(s[n], i)
  <2>1. Falling(s, n, i) = Falling(s, n - 1, i) BY <1>0, <1>3 DEF Falling
  <2> QED BY <1>3, <2>1
<1> QED BY <1>2, <1>3

\* ... and a later bucket has all but those it has not seen.
LEMMA FallingAscends ==
    ASSUME NEW s \in Seq(Nat), NEW n \in 0 .. Len(s),
           NEW i \in Buckets, NEW j \in Buckets, i < j
    PROVE  Cardinality(Falling(s, n, i)) <= Cardinality(Falling(s, n, j))
<1>1. Falling(s, n, i) \subseteq Falling(s, n, j)
  <2> SUFFICES ASSUME NEW k \in 1 .. n, InBucket(s[k], i) PROVE InBucket(s[k], j)
    BY DEF Falling
  <2>1. k \in 1 .. Len(s) BY LenProperties
  <2>2. s[k] \in Int BY <2>1, ElementOfSeq
  <2> QED BY <2>2, BucketsAscend
<1>2. IsFiniteSet(Falling(s, n, j)) BY FallingIsFinite
<1> QED BY <1>1, <1>2, FS_Subset

\* The lines of a scrape, one by one.
LinesOf(m, t, b, u, o) == <<m, t>> \o b \o <<u, b[Inf], o>>

LEMMA LinesAre ==
    ASSUME NEW m \in Int, NEW t \in Int, NEW b \in [Buckets -> Int], NEW u \in Int, NEW o \in Int
    PROVE  /\ LinesOf(m, t, b, u, o) \in Seq(Int) /\ Len(LinesOf(m, t, b, u, o)) = Inf + 5
           /\ LinesOf(m, t, b, u, o)[1] = m
           /\ \A i \in Buckets : LinesOf(m, t, b, u, o)[i + 2] = b[i]
           /\ LinesOf(m, t, b, u, o)[Inf + 3] = u
           /\ LinesOf(m, t, b, u, o)[Inf + 4] = b[Inf]
<1> DEFINE lines == LinesOf(m, t, b, u, o)
           front == <<m, t>>
           back == <<u, b[Inf], o>>
<1>a. lines = front \o b \o back BY DEF LinesOf
<1> HIDE DEF lines
<1>0. Inf \in Nat \ {0} /\ Inf \in Buckets /\ Buckets = 1 .. Inf
  BY BucketsAscend DEF Buckets
<1>1. b \in Seq(Int) /\ Len(b) = Inf
  BY <1>0, IsASeq, LenProperties
<1>2. front \in Seq(Int) /\ Len(front) = 2 /\ front[1] = m OBVIOUS
<1>3. b[Inf] \in Int BY <1>0
<1>4. back \in Seq(Int) /\ Len(back) = 3 /\ back[1] = u /\ back[2] = b[Inf] BY <1>3
<1> HIDE DEF front, back
<1>5. /\ front \o b \in Seq(Int) /\ Len(front \o b) = Inf + 2
      /\ (front \o b)[1] = m
      /\ \A i \in Buckets : (front \o b)[i + 2] = b[i]
  <2>1. front \o b \in Seq(Int) /\ Len(front \o b) = Inf + 2
    <3>1. front \o b \in Seq(Int) /\ Len(front \o b) = Len(front) + Len(b)
      BY <1>1, <1>2, ConcatProperties
    <3>2. Len(front) + Len(b) = Inf + 2 BY <1>0, <1>1, <1>2
    <3> QED BY <3>1, <3>2
  <2>2. \A i \in 1 .. Len(front) + Len(b) :
           (front \o b)[i] = IF i <= Len(front) THEN front[i] ELSE b[i - Len(front)]
    BY <1>1, <1>2, ConcatProperties
  <2>4. (front \o b)[1] = m
    <3>1. 1 \in 1 .. Len(front) + Len(b) /\ 1 <= Len(front) BY <1>0, <1>1, <1>2
    <3> QED BY <1>2, <2>2, <3>1
  <2>5. ASSUME NEW i \in Buckets PROVE (front \o b)[i + 2] = b[i]
    <3>1. i + 2 \in 1 .. 2 + Inf /\ ~(i + 2 <= 2) /\ (i + 2) - 2 = i BY <1>0
    <3> QED BY <1>1, <1>2, <2>2, <3>1
  <2> QED BY <2>1, <2>4, <2>5
<1>6. /\ lines \in Seq(Int) /\ Len(lines) = (Inf + 2) + 3
      /\ \A i \in 1 .. (Inf + 2) + 3 :
           lines[i] = IF i <= Inf + 2 THEN (front \o b)[i] ELSE back[i - (Inf + 2)]
  <2> DEFINE middle == front \o b
  <2>1. middle \in Seq(Int) /\ Len(middle) = Inf + 2 BY <1>5
  <2> HIDE DEF middle
  <2>2. /\ middle \o back \in Seq(Int) /\ Len(middle \o back) = Len(middle) + Len(back)
        /\ \A i \in 1 .. Len(middle) + Len(back) :
             (middle \o back)[i] = IF i <= Len(middle) THEN middle[i] ELSE back[i - Len(middle)]
    BY <1>4, <2>1, ConcatProperties
  <2>3. /\ middle \o back \in Seq(Int) /\ Len(middle \o back) = (Inf + 2) + 3
        /\ \A i \in 1 .. (Inf + 2) + 3 :
             (middle \o back)[i] = IF i <= Inf + 2 THEN middle[i] ELSE back[i - (Inf + 2)]
    BY <1>4, <2>1, <2>2
  <2> QED BY <1>a, <2>3 DEF middle
<1>7. lines[1] = m
  <2>1. 1 \in 1 .. (Inf + 2) + 3 /\ 1 <= Inf + 2 BY <1>0
  <2> QED BY <1>5, <1>6, <2>1
<1>8. ASSUME NEW i \in Buckets PROVE lines[i + 2] = b[i]
  <2>1. i + 2 \in 1 .. (Inf + 2) + 3 /\ i + 2 <= Inf + 2 BY <1>0
  <2> QED BY <1>5, <1>6, <2>1
<1>9. lines[Inf + 3] = u
  <2>1. Inf + 3 \in 1 .. (Inf + 2) + 3 /\ ~(Inf + 3 <= Inf + 2) /\ (Inf + 3) - (Inf + 2) = 1
    BY <1>0
  <2> QED BY <1>4, <1>6, <2>1
<1>10. lines[Inf + 4] = b[Inf]
  <2>1. Inf + 4 \in 1 .. (Inf + 2) + 3 /\ ~(Inf + 4 <= Inf + 2) /\ (Inf + 4) - (Inf + 2) = 2
    BY <1>0
  <2> QED BY <1>4, <1>6, <2>1
<1>11. (Inf + 2) + 3 = Inf + 5 BY <1>0
<1>12. /\ lines \in Seq(Int) /\ Len(lines) = Inf + 5 /\ lines[1] = m
       /\ \A i \in Buckets : lines[i + 2] = b[i]
       /\ lines[Inf + 3] = u /\ lines[Inf + 4] = b[Inf]
  BY <1>6, <1>7, <1>8, <1>9, <1>10, <1>11
<1> QED BY <1>12 DEF lines

\* What a scrape would print now, line by line.
LEMMA LinesNow ==
    ASSUME msgCount \in Int, lastUpdateTimeMs \in Int, processingUsSum \in Int,
           ofiAccumulator \in Int, processingBuckets \in [Buckets -> Int]
    PROVE  /\ Lines \in Seq(Int) /\ Len(Lines) = Inf + 5
           /\ Lines[1] = msgCount /\ \A i \in Buckets : Lines[i + 2] = processingBuckets[i]
           /\ Lines[Inf + 3] = processingUsSum /\ Lines[Inf + 4] = processingBuckets[Inf]
<1>1. Lines = LinesOf(msgCount, lastUpdateTimeMs, processingBuckets, processingUsSum,
                      ofiAccumulator)
  BY DEF Lines, LinesOf
<1>2. \A m, t, u, o \in Int, b \in [Buckets -> Int] :
         /\ LinesOf(m, t, b, u, o) \in Seq(Int) /\ Len(LinesOf(m, t, b, u, o)) = Inf + 5
         /\ LinesOf(m, t, b, u, o)[1] = m
         /\ \A i \in Buckets : LinesOf(m, t, b, u, o)[i + 2] = b[i]
         /\ LinesOf(m, t, b, u, o)[Inf + 3] = u
         /\ LinesOf(m, t, b, u, o)[Inf + 4] = b[Inf]
  BY LinesAre
<1> QED BY <1>1, <1>2, SMTT(60)

-----------------------------------------------------------------------------
(* Counters.                                                               *)

FeedType == [pc : FeedPcs, us : Timings \cup {0}, bucket : Buckets, ofi : Word,
             counts : BOOLEAN]

\* What the types give.
LEMMA TypeFacts ==
    ASSUME TypeOK
    PROVE  /\ observed \in Seq(Nat) /\ observed \in Seq(Int) /\ Len(observed) \in Nat
           /\ sent \in Seq(Word) /\ Len(sent) \in Nat /\ firstSent \in 0 .. Len(sent)
           /\ scrape \in Seq(Int) /\ Len(scrape) \in Nat /\ Len(scrape) <= Inf + 5
           /\ Lines \in Seq(Int) /\ Len(Lines) = Inf + 5
           /\ Lines[1] = msgCount /\ \A i \in Buckets : Lines[i + 2] = processingBuckets[i]
           /\ Lines[Inf + 3] = processingUsSum /\ Lines[Inf + 4] = processingBuckets[Inf]
           /\ msgCount \in Nat /\ processingUsSum \in Nat
           /\ \A i \in Buckets : processingBuckets[i] \in Nat
           /\ feed \in FeedType
<1>1. /\ observed \in Seq(Timings) /\ Timings \subseteq Nat /\ Nat \subseteq Int
      /\ sent \in Seq(Word) /\ firstSent \in 0 .. Len(sent) /\ scrape \in Seq(Int)
      /\ feed \in FeedType
  BY MetricsAssumption DEF TypeOK, FeedType
<1>2. observed \in Seq(Nat) /\ observed \in Seq(Int) BY <1>1, SeqMonotonic
<1>3. Len(observed) \in Nat /\ Len(sent) \in Nat /\ Len(scrape) \in Nat
  BY <1>1, LenProperties
<1>4. /\ MaxUpdates \in Nat /\ msgCount \in Nat /\ processingUsSum \in Nat
      /\ lastUpdateTimeMs \in Int /\ ofiAccumulator \in Int
      /\ processingBuckets \in [Buckets -> 0 .. MaxUpdates]
  BY MetricsAssumption, WordAssumption DEF TypeOK, Word, WordMin
<1>5. processingBuckets \in [Buckets -> Int] /\ \A i \in Buckets : processingBuckets[i] \in Nat
  BY <1>4
<1>6. /\ Lines \in Seq(Int) /\ Len(Lines) = Inf + 5
      /\ Lines[1] = msgCount /\ \A i \in Buckets : Lines[i + 2] = processingBuckets[i]
      /\ Lines[Inf + 3] = processingUsSum /\ Lines[Inf + 4] = processingBuckets[Inf]
  <2>1. msgCount \in Int /\ processingUsSum \in Int BY <1>4
  <2> QED BY <1>4, <1>5, <2>1, LinesNow
<1>7. Len(scrape) <= Inf + 5 BY <1>6 DEF TypeOK
<1> QED BY <1>1, <1>2, <1>3, <1>4, <1>5, <1>6, <1>7

\* The counters in a state that fits the types: how many have reached a bucket ...
LEMMA ReachedBounds ==
    ASSUME TypeOK, CountersOK
    PROVE  /\ \A i \in Buckets : Reached(i) \in 0 .. Len(observed)
           /\ \A i, j \in Buckets : i < j =>
                 Reached(j) = Reached(i) \/ (Reached(i) = Len(observed) /\ Len(observed) > 0
                                             /\ Reached(j) = Reached(i) - 1)
           /\ feed.pc = "record" => \A j \in Buckets : feed.bucket <= j =>
                 Reached(j) = Len(observed) - 1
<1>1. Len(observed) \in Nat BY TypeFacts
<1>2. feed.bucket \in Buckets BY TypeFacts DEF FeedType
<1>3. feed.pc = "record" => Len(observed) > 0 BY DEF CountersOK
<1>4. \A i \in Buckets : i \in Nat BY BucketsAscend DEF Buckets
<1> QED BY <1>1, <1>2, <1>3, <1>4 DEF Reached

\* ... and that buckets are cumulative but for the observation under way.
LEMMA BucketsNow ==
    ASSUME TypeOK, CountersOK
    PROVE  /\ processingBuckets[Inf] = Reached(Inf)
           /\ \A i, j \in Buckets : i < j => processingBuckets[i] <= processingBuckets[j] + 1
           /\ feed.pc = "record" => \A j \in Buckets : feed.bucket < j =>
                 processingBuckets[feed.bucket] <= processingBuckets[j]
<1>0. /\ observed \in Seq(Nat) /\ Len(observed) \in Nat /\ Inf \in Buckets
      /\ feed.bucket \in Buckets /\ \A i \in Buckets : i \in Nat
  BY TypeFacts, BucketsAscend DEF FeedType, Buckets
<1>1. \A i \in Buckets : processingBuckets[i] = Cardinality(Falling(observed, Reached(i), i))
  BY DEF CountersOK
<1>2. processingBuckets[Inf] = Reached(Inf)
  BY <1>0, <1>1, ReachedBounds, FallingIsFinite
<1>3. ASSUME NEW i \in Buckets, NEW j \in Buckets, i < j, Reached(i) = Reached(j)
      PROVE  processingBuckets[i] <= processingBuckets[j]
  <2>1. Reached(i) \in 0 .. Len(observed) BY ReachedBounds
  <2>2. Cardinality(Falling(observed, Reached(i), i))
           <= Cardinality(Falling(observed, Reached(i), j))
    BY <1>0, <1>3, <2>1, FallingAscends
  <2> QED BY <1>1, <1>3, <2>2
<1>4. ASSUME NEW i \in Buckets, NEW j \in Buckets, i < j
      PROVE  processingBuckets[i] <= processingBuckets[j] + 1
  <2>0. processingBuckets[i] \in Nat /\ processingBuckets[j] \in Nat BY TypeFacts
  <2>1. CASE Reached(j) = Reached(i) BY <1>3, <1>4, <2>0, <2>1
  <2>2. CASE Reached(j) # Reached(i)
    <3> DEFINE n == Len(observed)
    <3>1. Reached(i) = n /\ n > 0 /\ Reached(j) = n - 1
      BY <1>4, <2>2, ReachedBounds
    <3>2. n \in 1 .. Len(observed) /\ n - 1 \in 0 .. Len(observed) BY <1>0, <3>1
    <3>3. Cardinality(Falling(observed, n, i)) <= Cardinality(Falling(observed, n - 1, i)) + 1
      <4>1. Cardinality(Falling(observed, n - 1, i)) \in 0 .. n - 1
        BY <1>0, <3>2, FallingIsFinite
      <4>2. Cardinality(Falling(observed, n, i)) =
               IF InBucket(observed[n], i) THEN Cardinality(Falling(observed, n - 1, i)) + 1
               ELSE Cardinality(Falling(observed, n - 1, i))
        BY <1>0, <3>2, FallingNext
      <4> QED BY <1>0, <4>1, <4>2
    <3>4. Cardinality(Falling(observed, n - 1, i)) <= Cardinality(Falling(observed, n - 1, j))
      BY <1>0, <1>4, <3>2, FallingAscends
    <3>5. /\ processingBuckets[i] = Cardinality(Falling(observed, n, i))
          /\ processingBuckets[j] = Cardinality(Falling(observed, n - 1, j))
      BY <1>1, <3>1
    <3>6. Cardinality(Falling(observed, n - 1, i)) \in 0 .. n - 1
      BY <1>0, <3>2, FallingIsFinite
    <3> HIDE DEF n
    <3> QED BY <2>0, <3>3, <3>4, <3>5, <3>6
  <2> QED BY <2>1, <2>2
<1>5. ASSUME feed.pc = "record", NEW j \in Buckets, feed.bucket < j
      PROVE  processingBuckets[feed.bucket] <= processingBuckets[j]
  <2>1. Reached(feed.bucket) = Reached(j)
    <3>1. feed.bucket <= feed.bucket /\ feed.bucket <= j BY <1>0, <1>5
    <3> QED BY <1>0, <1>5, <3>1, ReachedBounds
  <2> QED BY <1>0, <1>3, <1>5, <2>1
<1> QED BY <1>2, <1>4, <1>5

\* A step that leaves the counters alone, and is not about the observation under way.
CountersKept ==
    /\ UNCHANGED <<observed, msgCount, processingUsSum, processingBuckets>>
    /\ \/ feed' = feed
       \/ /\ feed.pc \notin {"record", "count"} /\ feed'.pc \notin {"record", "count"}
          /\ feed'.pc = "applied" => Len(observed) < MaxUpdates

\* All steps but three do.
LEMMA OthersKeepCounters ==
    ASSUME TypeOK, [Next]_vars
    PROVE  \/ CountersKept
           \/ \E us \in Timings : RecordSum(us)
           \/ RecordBucket \/ CountMessage
<1>0. feed \in FeedType BY TypeFacts
<1>1. \A pc : FeedGoto(pc) => feed'.pc = pc BY <1>0 DEF FeedGoto, FeedType
<1>2. CASE UNCHANGED vars BY <1>2 DEF CountersKept, vars, metricsVars, historyVars
<1>3. CASE TouchAge
  BY <1>1, <1>3 DEF TouchAge, CountersKept, historyVars
<1>4. ASSUME NEW deltas \in Messages, Broadcast(deltas) PROVE CountersKept
  <2>1. feed'.pc = "accumulate" BY <1>0, <1>4 DEF Broadcast, FeedType
  <2> QED BY <1>4, <2>1 DEF Broadcast, CountersKept, metricsVars
<1>5. CASE Accumulate BY <1>5 DEF Accumulate, CountersKept, IdleFeed, historyVars
<1>6. CASE ClearBook
  BY <1>1, <1>6 DEF ClearBook, CountersKept, metricsVars, historyVars
<1>7. CASE ForgetAge
  <2>1. feed'.pc \in {"resetOfi", "idle"} BY <1>1, <1>7 DEF ForgetAge
  <2> QED BY <1>7, <2>1 DEF ForgetAge, CountersKept, historyVars
<1>8. CASE ResetOfi BY <1>8 DEF ResetOfi, CountersKept, IdleFeed
<1>9. CASE WorkerRestoresBook
  BY <1>9 DEF WorkerRestoresBook, CountersKept, metricsVars, historyVars
<1>10. CASE KrakenSnapshot
  BY <1>1, <1>10 DEF KrakenSnapshot, CountersKept, metricsVars, historyVars
<1>11. CASE TouchSnapshot BY <1>11 DEF TouchSnapshot, CountersKept, IdleFeed, historyVars
<1>12. CASE ScrapeBegins \/ ReadLine
  BY <1>12 DEF ScrapeBegins, ReadLine, scrapeFrame, CountersKept, metricsVars, historyVars
<1>13. CASE ApplyUpdate
  BY <1>13 DEF ApplyUpdate, CountersKept, IdleFeed, metricsVars, historyVars
<1> QED
  BY <1>2, <1>3, <1>4, <1>5, <1>6, <1>7, <1>8, <1>9, <1>10, <1>11, <1>12, <1>13
  DEF Next, FeedStep

\* What a new observation does to those before it: nothing.
LEMMA Observing ==
    ASSUME NEW s \in Seq(Nat), NEW us \in Nat, NEW n \in 0 .. Len(s)
    PROVE  /\ Append(s, us) \in Seq(Nat) /\ Len(Append(s, us)) = Len(s) + 1
           /\ Append(s, us)[Len(s) + 1] = us
           /\ \A i \in Buckets : Falling(Append(s, us), n, i) = Falling(s, n, i)
           /\ First(Append(s, us), n) = First(s, n)
<1>0. /\ Append(s, us) \in Seq(Nat) /\ Len(Append(s, us)) = Len(s) + 1
      /\ Append(s, us)[Len(s) + 1] = us /\ Len(s) \in Nat
      /\ \A k \in 1 .. Len(s) : Append(s, us)[k] = s[k]
  BY AppendProperties, LenProperties
<1>1. \A k \in 1 .. n : Append(s, us)[k] = s[k] BY <1>0
<1>2. \A i \in Buckets : Falling(Append(s, us), n, i) = Falling(s, n, i)
  BY <1>1 DEF Falling
<1>3. First(Append(s, us), n) = First(s, n)
  <2>1. CASE n = 0 BY <2>1, SubSeqEmpty DEF First
  <2>2. CASE n # 0
    <3>1. 1 \in 1 .. Len(s) /\ n \in 1 .. Len(s) BY <1>0, <2>2
    <3>2. <<us>> \in Seq(Nat) /\ Append(s, us) = s \o <<us>> BY AppendIsConcat
    <3> QED BY <3>1, <3>2, SubSeqOfConcat1 DEF First
  <2> QED BY <2>1, <2>2
<1> QED BY <1>0, <1>2, <1>3

\* The counters follow the observations.
LEMMA CountersStep == TypeOK /\ CountersOK /\ [Next]_vars => CountersOK'
<1> SUFFICES ASSUME TypeOK, CountersOK, [Next]_vars PROVE CountersOK'
  OBVIOUS
<1>0. /\ observed \in Seq(Nat) /\ Len(observed) \in Nat /\ observed \in Seq(Int)
      /\ feed \in FeedType /\ Inf \in Nat \ {0} /\ Buckets = 1 .. Inf
      /\ msgCount \in Nat /\ processingUsSum \in Nat /\ MaxUpdates \in Nat
  BY TypeFacts, BucketsAscend, MetricsAssumption DEF Buckets
<1>1. CASE CountersKept
  <2>1. \A i \in Buckets : Reached(i)' = Reached(i) BY <1>1 DEF CountersKept, Reached
  <2>2. \A i \in Buckets : processingBuckets'[i] =
           Cardinality(Falling(observed', Reached(i)', i))
    BY <1>1, <2>1 DEF CountersKept, CountersOK
  <2> QED BY <1>1, <2>2 DEF CountersKept, CountersOK
<1>2. ASSUME NEW us \in Timings, RecordSum(us) PROVE CountersOK'
  <2> DEFINE n == Len(observed)
  <2>0. us \in Nat BY <1>2, MetricsAssumption
  <2>1. /\ feed.pc = "applied" /\ n < MaxUpdates
        /\ observed' = Append(observed, us)
        /\ processingUsSum' = processingUsSum + us /\ UNCHANGED <<msgCount, processingBuckets>>
    BY <1>2 DEF RecordSum, CountersOK
  <2>2. feed'.pc = "record" /\ feed'.us = us /\ feed'.bucket = 1
    BY <1>2 DEF RecordSum, IdleFeed
  <2>3. n \in 0 .. n BY <1>0
  <2>4. /\ Len(observed') = n + 1 /\ observed'[n + 1] = us
        /\ \A i \in Buckets : Falling(observed', n, i) = Falling(observed, n, i)
    <3>1. /\ Len(Append(observed, us)) = n + 1 /\ Append(observed, us)[n + 1] = us
          /\ \A i \in Buckets : Falling(Append(observed, us), n, i) = Falling(observed, n, i)
      BY <1>0, <2>0, <2>3, Observing
    <3> QED BY <2>1, <3>1
  <2>5. Sum(observed') = Sum(observed) + us BY <1>0, <2>0, <2>1, SumProperties
  <2>6. ASSUME NEW i \in Buckets
        PROVE  processingBuckets'[i] = Cardinality(Falling(observed', Reached(i)', i))
    <3>1. Reached(i) = n BY <2>1 DEF Reached
    <3>2. 1 <= i BY <1>0
    <3>3. Reached(i)' = Len(observed') - 1 BY <2>2, <3>2 DEF Reached
    <3>4. Reached(i)' = n BY <1>0, <2>4, <3>3
    <3>5. processingBuckets[i] = Cardinality(Falling(observed, n, i)) BY <3>1 DEF CountersOK
    <3> QED BY <2>1, <2>4, <3>4, <3>5
  <2>7. /\ Len(observed') <= MaxUpdates /\ Len(observed') > 0
        /\ msgCount' = Len(observed') - 1
    <3>1. msgCount = n BY <2>1 DEF CountersOK
    <3> QED BY <1>0, <2>1, <2>4, <3>1
  <2>8. processingUsSum' = Sum(observed') BY <2>1, <2>5 DEF CountersOK
  <2>9. feed'.us = observed'[Len(observed')] BY <2>2, <2>4
  <2> HIDE DEF n
  <2> QED BY <2>2, <2>6, <2>7, <2>8, <2>9 DEF CountersOK
<1>3. CASE RecordBucket
  <2> DEFINE n == Len(observed)
             b == feed.bucket
  <2>1. /\ feed.pc = "record" /\ UNCHANGED <<observed, msgCount, processingUsSum>>
        /\ processingBuckets' = [processingBuckets EXCEPT ![b] =
              IF InBucket(feed.us, b) THEN @ + 1 ELSE @]
    BY <1>3 DEF RecordBucket, historyVars
  <2>2. b \in Buckets /\ n > 0 /\ feed.us = observed[n] /\ n \in 1 .. n /\ msgCount = n - 1
    BY <1>0, <2>1 DEF CountersOK, FeedType
  <2>3. /\ feed'.us = feed.us
        /\ b = Inf => feed'.pc = "count"
        /\ b # Inf => feed'.pc = "record" /\ feed'.bucket = b + 1
    BY <1>0, <1>3, <2>1 DEF RecordBucket, FeedType
  <2>4. ASSUME NEW i \in Buckets
        PROVE  processingBuckets'[i] = Cardinality(Falling(observed', Reached(i)', i))
    <3>0. processingBuckets \in [Buckets -> 0 .. MaxUpdates] BY DEF TypeOK
    <3>1. processingBuckets[i] = Cardinality(Falling(observed, Reached(i), i))
      BY DEF CountersOK
    <3>2. CASE i = b
      <4>1. Reached(i) = n - 1 BY <1>0, <2>1, <3>2 DEF Reached
      <4>2. Reached(i)' = n BY <1>0, <2>1, <2>3, <3>2 DEF Reached
      <4>3. processingBuckets'[i] =
               IF InBucket(observed[n], i) THEN processingBuckets[i] + 1
               ELSE processingBuckets[i]
        BY <2>1, <2>2, <3>0, <3>2
      <4>4. Cardinality(Falling(observed, n, i)) =
               IF InBucket(observed[n], i) THEN Cardinality(Falling(observed, n - 1, i)) + 1
               ELSE Cardinality(Falling(observed, n - 1, i))
        BY <1>0, <2>2, FallingNext
      <4> QED BY <2>1, <3>1, <4>1, <4>2, <4>3, <4>4
    <3>3. CASE i # b
      <4>1. processingBuckets'[i] = processingBuckets[i] BY <2>1, <3>0, <3>3
      <4>2. Reached(i)' = Reached(i)
        <5>1. i \in Nat /\ b \in Nat /\ b <= Inf /\ i <= Inf BY <1>0, <2>2
        <5>2. CASE b <= i
          <6>1. b # Inf /\ b + 1 <= i BY <1>0, <3>3, <5>1, <5>2
          <6> QED BY <2>1, <2>3, <5>2, <6>1 DEF Reached
        <5>3. CASE ~(b <= i)
          <6>1. ~(b + 1 <= i) BY <5>1, <5>3
          <6> QED BY <2>1, <2>3, <5>3, <6>1 DEF Reached
        <5> QED BY <5>2, <5>3
      <4> QED BY <2>1, <3>1, <4>1, <4>2
    <3> QED BY <3>2, <3>3
  <2>5. /\ Len(observed') <= MaxUpdates /\ Len(observed') > 0
        /\ msgCount' = Len(observed') - 1 /\ processingUsSum' = Sum(observed')
        /\ feed'.us = observed'[Len(observed')]
    BY <2>1, <2>2, <2>3 DEF CountersOK
  <2>6. feed'.pc \in {"record", "count"} BY <2>3
  <2> HIDE DEF n, b
  <2> QED BY <2>4, <2>5, <2>6 DEF CountersOK
<1>4. CASE CountMessage
  <2>1. /\ feed.pc = "count" /\ feed'.pc = "touch" /\ msgCount' = msgCount + 1
        /\ UNCHANGED <<observed, processingUsSum, processingBuckets>>
    BY <1>0, <1>4 DEF CountMessage, FeedGoto, historyVars, FeedType
  <2>2. \A i \in Buckets : Reached(i)' = Reached(i) BY <2>1 DEF Reached
  <2>3. \A i \in Buckets : processingBuckets'[i] =
           Cardinality(Falling(observed', Reached(i)', i))
    BY <2>1, <2>2 DEF CountersOK
  <2>4. msgCount' = Len(observed') BY <1>0, <2>1 DEF CountersOK
  <2> QED BY <2>1, <2>3, <2>4 DEF CountersOK
<1> QED BY <1>1, <1>2, <1>3, <1>4, OthersKeepCounters

-----------------------------------------------------------------------------
(* Scrapes.                                                                *)

\* What is shown are numbers.
LEMMA ShownAre ==
    ASSUME TypeOK
    PROVE  /\ \A i \in Buckets : ShownBucket(i) \in Int
           /\ Shown(1, msgCount) \in Int
           /\ Shown(Inf + 4, processingBuckets[Inf]) \in Int
           /\ Shown(Inf + 3, processingUsSum) \in Int
<1>1. /\ scrape \in Seq(Int) /\ Len(scrape) \in Nat /\ Inf \in Nat /\ Inf \in Buckets
      /\ \A i \in Buckets : i \in Nat /\ i + 2 \in Nat \ {0}
  BY TypeFacts, BucketsAscend DEF Buckets
<1>2. ASSUME NEW n \in Nat \ {0}, NEW current \in Int PROVE Shown(n, current) \in Int
  <2>1. n <= Len(scrape) => scrape[n] \in Int BY <1>1, ElementOfSeq
  <2> QED BY <2>1 DEF Shown
<1>3. msgCount \in Int /\ processingUsSum \in Int /\ \A i \in Buckets : processingBuckets[i] \in Int
  BY TypeFacts
<1>4. Inf + 4 \in Nat \ {0} /\ Inf + 3 \in Nat \ {0} /\ 1 \in Nat \ {0} BY <1>1
<1> QED BY <1>1, <1>2, <1>3, <1>4 DEF ShownBucket

\* A scrape stays consistent, whatever is observed, counted and read meanwhile.
LEMMA ScrapeStep ==
    TypeOK /\ CountersOK /\ CountersOK' /\ ScrapeOK /\ [Next]_vars => ScrapeOK'
<1> SUFFICES ASSUME TypeOK, CountersOK, CountersOK', ScrapeOK, [Next]_vars PROVE ScrapeOK'
  OBVIOUS
<1>0. /\ observed \in Seq(Nat) /\ Len(observed) \in Nat /\ observed \in Seq(Int)
      /\ feed \in FeedType /\ Inf \in Nat \ {0} /\ Inf \in Buckets /\ Buckets = 1 .. Inf
      /\ msgCount \in Nat /\ processingUsSum \in Nat
      /\ \A i \in Buckets : processingBuckets[i] \in Nat
      /\ Len(scrape) \in Nat /\ scrape \in Seq(Int)
  BY TypeFacts, BucketsAscend DEF Buckets
<1>1. CASE CountersKept /\ scrape' = scrape
  <2>1. \A n, c : Shown(n, c)' = Shown(n, c') BY <1>1 DEF Shown
  <2>2. /\ observed' = observed /\ msgCount' = msgCount /\ processingUsSum' = processingUsSum
        /\ processingBuckets' = processingBuckets
    BY <1>1 DEF CountersKept
  <2>3. \A i : ShownBucket(i)' = ShownBucket(i) BY <1>1, <2>2 DEF ShownBucket, Shown
  <2>4. /\ Shown(1, msgCount)' = Shown(1, msgCount)
        /\ Shown(Inf + 4, processingBuckets[Inf])' = Shown(Inf + 4, processingBuckets[Inf])
        /\ Shown(Inf + 3, processingUsSum)' = Shown(Inf + 3, processingUsSum)
    BY <1>1, <2>2 DEF Shown
  <2> QED BY <2>2, <2>3, <2>4 DEF ScrapeOK
<1>2. ASSUME NEW us \in Timings, RecordSum(us) PROVE ScrapeOK'
  <2>0. us \in Nat BY <1>2, MetricsAssumption
  <2>1. /\ observed' = Append(observed, us) /\ processingUsSum' = processingUsSum + us
        /\ msgCount' = msgCount /\ processingBuckets' = processingBuckets /\ scrape' = scrape
    BY <1>2 DEF RecordSum, feedFrame
  <2>2. \A i : ShownBucket(i)' = ShownBucket(i) BY <2>1 DEF ShownBucket, Shown
  <2>3. /\ Shown(1, msgCount)' = Shown(1, msgCount)
        /\ Shown(Inf + 4, processingBuckets[Inf])' = Shown(Inf + 4, processingBuckets[Inf])
        /\ Shown(Inf + 3, processingUsSum)' \in Int
        /\ Shown(Inf + 3, processingUsSum) <= Shown(Inf + 3, processingUsSum)'
    <3>1. Shown(Inf + 3, processingUsSum) \in Int BY ShownAre
    <3> QED BY <1>0, <2>0, <2>1, <3>1 DEF Shown
  <2> DEFINE k == ShownBucket(Inf)
  <2>4. k \in 0 .. Len(observed) BY DEF ScrapeOK
  <2>5. /\ Len(observed') = Len(observed) + 1
        /\ First(Append(observed, us), k) = First(observed, k)
    <3> HIDE DEF k
    <3> QED BY <1>0, <2>0, <2>1, <2>4, Observing
  <2>6. Sum(First(observed', ShownBucket(Inf)')) = Sum(First(observed, k))
    BY <2>1, <2>2, <2>5
  <2>7. Sum(First(observed, k)) \in Int
    <3> HIDE DEF k
    <3>1. First(observed, k) \in Seq(Int) BY <1>0, <2>4, SubSeqProperties DEF First
    <3> QED BY <3>1, SumProperties
  <2>8. Sum(First(observed, k)) <= Shown(Inf + 3, processingUsSum) BY DEF ScrapeOK
  <2>9. Shown(Inf + 3, processingUsSum) \in Int BY ShownAre
  <2>10. Sum(First(observed', ShownBucket(Inf)')) <= Shown(Inf + 3, processingUsSum)'
    <3> HIDE DEF k
    <3> QED BY <2>3, <2>6, <2>7, <2>8, <2>9
  <2>11. ShownBucket(Inf)' \in 0 .. Len(observed') BY <1>0, <2>2, <2>4, <2>5
  <2> HIDE DEF k
  <2> QED BY <2>2, <2>3, <2>10, <2>11 DEF ScrapeOK
<1>3. CASE RecordBucket
  <2> DEFINE b == feed.bucket
  <2>1. /\ feed.pc = "record" /\ scrape' = scrape /\ observed' = observed
        /\ msgCount' = msgCount /\ processingUsSum' = processingUsSum
        /\ processingBuckets' = [processingBuckets EXCEPT ![b] =
              IF InBucket(feed.us, b) THEN @ + 1 ELSE @]
    BY <1>3 DEF RecordBucket, historyVars, feedFrame
  <2>2. b \in Buckets BY <1>0 DEF FeedType
  <2>3. \A i \in Buckets :
          /\ processingBuckets'[i] \in Nat /\ processingBuckets[i] <= processingBuckets'[i]
          /\ processingBuckets'[i] <= processingBuckets[i] + 1
          /\ i # b => processingBuckets'[i] = processingBuckets[i]
    <3>1. processingBuckets \in [Buckets -> 0 .. MaxUpdates] BY DEF TypeOK
    <3> QED BY <1>0, <2>1, <3>1
  <2>4. ASSUME NEW i \in Buckets
        PROVE  /\ ShownBucket(i)' \in Int /\ ShownBucket(i) \in Int
               /\ ShownBucket(i) <= ShownBucket(i)'
               /\ ShownBucket(i)' =
                     IF i + 2 <= Len(scrape) THEN ShownBucket(i) ELSE processingBuckets'[i]
    <3>1. ShownBucket(i) \in Int BY ShownAre
    <3>2. ShownBucket(i)' =
             IF i + 2 <= Len(scrape) THEN ShownBucket(i) ELSE processingBuckets'[i]
      BY <2>1 DEF ShownBucket, Shown
    <3>3. ~(i + 2 <= Len(scrape)) => ShownBucket(i) = processingBuckets[i]
      BY DEF ShownBucket, Shown
    <3> QED BY <1>0, <2>3, <3>1, <3>2, <3>3
  <2>5. ASSUME NEW i \in Buckets, NEW j \in Buckets, i < j
        PROVE  ShownBucket(i)' <= ShownBucket(j)' + 1
    <3>1. ShownBucket(i) <= ShownBucket(j) + 1 BY <2>5 DEF ScrapeOK
    <3>2. CASE ShownBucket(i)' = ShownBucket(i) BY <2>4, <3>1, <3>2
    <3>3. CASE ShownBucket(i)' # ShownBucket(i)
      <4>1. ~(i + 2 <= Len(scrape)) /\ i = b
        <5>1. ~(i + 2 <= Len(scrape)) BY <2>4, <3>3
        <5>2. ShownBucket(i) = processingBuckets[i] /\ ShownBucket(i)' = processingBuckets'[i]
          BY <2>4, <5>1 DEF ShownBucket, Shown
        <5> QED BY <2>3, <3>3, <5>1, <5>2
      <4>2. ~(j + 2 <= Len(scrape)) BY <1>0, <2>5, <4>1, SMTT(60)
      <4>3. ShownBucket(i)' = processingBuckets'[i] /\ ShownBucket(j)' = processingBuckets'[j]
        BY <2>4, <4>1, <4>2
      <4>4. processingBuckets[i] <= processingBuckets[j]
        BY <2>1, <2>5, <4>1, BucketsNow
      <4>5. processingBuckets'[i] <= processingBuckets'[j] + 1
        BY <1>0, <2>3, <4>4, SMTT(60)
      <4> QED BY <4>3, <4>5
    <3> QED BY <3>2, <3>3
  <2>6. ShownBucket(Inf)' \in 0 .. Len(observed)
    <3>1. ShownBucket(Inf) \in 0 .. Len(observed) BY DEF ScrapeOK
    <3>2. processingBuckets[Inf] = Len(observed) - 1 /\ Len(observed) > 0
      <4>1. b <= Inf BY <1>0, <2>2
      <4>2. processingBuckets[Inf] = Reached(Inf) BY BucketsNow
      <4> QED BY <2>1, <4>1, <4>2 DEF Reached, CountersOK
    <3>3. processingBuckets'[Inf] \in 0 .. Len(observed) BY <1>0, <2>3, <3>2
    <3> QED BY <1>0, <2>4, <3>1, <3>3
  <2>7. Shown(1, msgCount)' <= ShownBucket(Inf)'
    <3>1. Shown(1, msgCount)' = Shown(1, msgCount) BY <2>1 DEF Shown
    <3>2. Shown(1, msgCount) <= ShownBucket(Inf) /\ Shown(1, msgCount) \in Int
      BY ShownAre DEF ScrapeOK
    <3> QED BY <1>0, <2>4, <3>1, <3>2
  <2>8. ShownBucket(Inf)' <= Shown(Inf + 4, processingBuckets[Inf])'
    <3> DEFINE c == Shown(Inf + 4, processingBuckets[Inf])
    <3>1. ShownBucket(Inf) <= c /\ c \in Int BY ShownAre DEF ScrapeOK
    <3>2. c' = IF Inf + 4 <= Len(scrape) THEN c ELSE processingBuckets'[Inf]
      BY <2>1 DEF Shown
    <3>3. CASE Inf + 4 <= Len(scrape)
      <4>1. Inf + 2 <= Len(scrape) BY <1>0, <3>3
      <4>2. ShownBucket(Inf)' = ShownBucket(Inf) BY <1>0, <2>4, <4>1
      <4>3. c' = c BY <3>2, <3>3
      <4> QED BY <3>1, <4>2, <4>3
    <3>4. CASE ~(Inf + 4 <= Len(scrape))
      <4>1. c' = processingBuckets'[Inf] /\ c = processingBuckets[Inf]
        BY <3>2, <3>4 DEF Shown
      <4>2. ShownBucket(Inf)' \in Int /\ ShownBucket(Inf) \in Int
            /\ (ShownBucket(Inf)' = ShownBucket(Inf) \/ ShownBucket(Inf)' = processingBuckets'[Inf])
        BY <1>0, <2>4
      <4>3. processingBuckets'[Inf] \in Nat /\ processingBuckets[Inf] <= processingBuckets'[Inf]
        BY <1>0, <2>3
      <4>4. ShownBucket(Inf)' <= c'
        <5> HIDE DEF c
        <5> QED BY <1>0, <3>1, <4>1, <4>2, <4>3
      <4> QED BY <4>4
    <3> QED BY <3>3, <3>4
  <2>9. Sum(First(observed, ShownBucket(Inf)')) <= Shown(Inf + 3, processingUsSum)'
    <3>1. Shown(Inf + 3, processingUsSum)' = Shown(Inf + 3, processingUsSum)
      BY <2>1 DEF Shown
    <3>2. CASE Inf + 2 <= Len(scrape)
      <4>1. ShownBucket(Inf)' = ShownBucket(Inf) BY <1>0, <2>4, <3>2
      <4>2. Sum(First(observed, ShownBucket(Inf))) <= Shown(Inf + 3, processingUsSum)
        BY DEF ScrapeOK
      <4> QED BY <3>1, <4>1, <4>2
    <3>3. CASE ~(Inf + 2 <= Len(scrape))
      <4>1. ~(Inf + 3 <= Len(scrape)) BY <1>0, <3>3
      <4>2. Shown(Inf + 3, processingUsSum) = Sum(observed) BY <4>1 DEF Shown, CountersOK
      <4>3. Sum(First(observed, ShownBucket(Inf)')) <= Sum(observed)
        BY <1>0, <2>6, SumsGrow
      <4> QED BY <3>1, <4>2, <4>3
    <3> QED BY <3>2, <3>3
  <2> HIDE DEF b
  <2> QED BY <2>1, <2>5, <2>6, <2>7, <2>8, <2>9 DEF ScrapeOK
<1>4. CASE CountMessage
  <2>1. /\ feed.pc = "count" /\ msgCount' = msgCount + 1 /\ scrape' = scrape
        /\ observed' = observed /\ processingUsSum' = processingUsSum
        /\ processingBuckets' = processingBuckets
    BY <1>4 DEF CountMessage, historyVars, feedFrame
  <2>2. \A i : ShownBucket(i)' = ShownBucket(i) BY <2>1 DEF ShownBucket, Shown
  <2>3. /\ Shown(Inf + 4, processingBuckets[Inf])' = Shown(Inf + 4, processingBuckets[Inf])
        /\ Shown(Inf + 3, processingUsSum)' = Shown(Inf + 3, processingUsSum)
    BY <2>1 DEF Shown
  <2>4. Shown(1, msgCount)' <= ShownBucket(Inf)
    <3>1. CASE 1 <= Len(scrape)
      <4>1. Shown(1, msgCount)' = Shown(1, msgCount) BY <2>1, <3>1 DEF Shown
      <4> QED BY <4>1 DEF ScrapeOK
    <3>2. CASE ~(1 <= Len(scrape))
      <4>1. Shown(1, msgCount)' = msgCount + 1 BY <2>1, <3>2 DEF Shown
      <4>2. ~(Inf + 2 <= Len(scrape)) BY <1>0, <3>2
      <4>3. ShownBucket(Inf) = processingBuckets[Inf] BY <4>2 DEF ShownBucket, Shown
      <4>4. processingBuckets[Inf] = Len(observed)
        <5>1. processingBuckets[Inf] = Reached(Inf) BY BucketsNow
        <5> QED BY <2>1, <5>1 DEF Reached
      <4>5. msgCount + 1 = Len(observed) BY <1>0, <2>1 DEF CountersOK
      <4>6. Len(observed) <= Len(observed) BY <1>0
      <4> QED BY <4>1, <4>3, <4>4, <4>5, <4>6
    <3> QED BY <3>1, <3>2
  <2> QED BY <2>1, <2>2, <2>3, <2>4 DEF ScrapeOK
<1>5. CASE ReadLine
  <2>1. /\ Len(scrape) < Len(Lines) /\ scrape' = Append(scrape, Lines[Len(scrape) + 1])
        /\ observed' = observed /\ msgCount' = msgCount /\ processingUsSum' = processingUsSum
        /\ processingBuckets' = processingBuckets
    BY <1>5 DEF ReadLine, scrapeFrame, metricsVars, historyVars
  <2>2. /\ Len(scrape') = Len(scrape) + 1
        /\ \A n \in 1 .. Len(scrape) : scrape'[n] = scrape[n]
        /\ scrape'[Len(scrape) + 1] = Lines[Len(scrape) + 1]
    <3>1. Len(scrape) + 1 \in 1 .. Len(Lines) BY <1>0, <2>1, TypeFacts
    <3>2. Lines[Len(scrape) + 1] \in Int BY <3>1, TypeFacts, ElementOfSeq
    <3> QED BY <1>0, <2>1, <3>2, AppendProperties
  <2>3. \A n \in Nat \ {0} : Shown(n, Lines[n]) =
          IF n <= Len(scrape') THEN scrape'[n] ELSE Lines[n]
    BY <1>0, <2>2 DEF Shown
  <2>4. \A i \in Buckets : ShownBucket(i)' = ShownBucket(i)
    <3> SUFFICES ASSUME NEW i \in Buckets PROVE ShownBucket(i)' = ShownBucket(i)
      OBVIOUS
    <3>0. \A j \in Buckets : Lines[j + 2] = processingBuckets[j] BY TypeFacts
    <3>1. i + 2 \in Nat \ {0} /\ Lines[i + 2] = processingBuckets[i] BY <1>0, <3>0
    <3>2. ShownBucket(i) = IF i + 2 <= Len(scrape') THEN scrape'[i + 2] ELSE processingBuckets[i]
      BY <2>3, <3>1 DEF ShownBucket
    <3> QED BY <2>1, <3>2 DEF ShownBucket, Shown
  <2>5. Shown(1, msgCount)' = Shown(1, msgCount)
    <3>1. Lines[1] = msgCount BY TypeFacts
    <3>2. Shown(1, msgCount) = IF 1 <= Len(scrape') THEN scrape'[1] ELSE msgCount
      BY <2>3, <3>1
    <3> QED BY <2>1, <3>2 DEF Shown
  <2>6. Shown(Inf + 4, processingBuckets[Inf])' = Shown(Inf + 4, processingBuckets[Inf])
    <3>1. Inf + 4 \in Nat \ {0} /\ Lines[Inf + 4] = processingBuckets[Inf] BY <1>0, TypeFacts
    <3>2. Shown(Inf + 4, processingBuckets[Inf]) =
            IF Inf + 4 <= Len(scrape') THEN scrape'[Inf + 4] ELSE processingBuckets[Inf]
      BY <2>3, <3>1
    <3> QED BY <2>1, <3>2 DEF Shown
  <2>7. Shown(Inf + 3, processingUsSum)' = Shown(Inf + 3, processingUsSum)
    <3>1. Inf + 3 \in Nat \ {0} /\ Lines[Inf + 3] = processingUsSum BY <1>0, TypeFacts
    <3>2. Shown(Inf + 3, processingUsSum) =
            IF Inf + 3 <= Len(scrape') THEN scrape'[Inf + 3] ELSE processingUsSum
      BY <2>3, <3>1
    <3> QED BY <2>1, <3>2 DEF Shown
  <2> QED BY <1>0, <2>1, <2>4, <2>5, <2>6, <2>7 DEF ScrapeOK
<1>6. CASE ScrapeBegins
  <2>1. /\ scrape' = << >> /\ observed' = observed /\ msgCount' = msgCount
        /\ processingUsSum' = processingUsSum /\ processingBuckets' = processingBuckets
    BY <1>6 DEF ScrapeBegins, scrapeFrame, metricsVars, historyVars
  <2>2. ASSUME NEW n \in Nat \ {0} PROVE ~(n <= Len(scrape'))
    <3>1. Len(scrape') = 0 BY <2>1
    <3> QED BY <3>1
  <2>3. \A i \in Buckets : ShownBucket(i)' = processingBuckets[i]
    <3> SUFFICES ASSUME NEW i \in Buckets PROVE ShownBucket(i)' = processingBuckets[i]
      OBVIOUS
    <3>1. i + 2 \in Nat \ {0} BY <1>0
    <3>2. ~(i + 2 <= Len(scrape')) BY <2>2, <3>1
    <3> QED BY <2>1, <3>2 DEF ShownBucket, Shown
  <2>4. /\ Shown(1, msgCount)' = msgCount
        /\ Shown(Inf + 4, processingBuckets[Inf])' = processingBuckets[Inf]
        /\ Shown(Inf + 3, processingUsSum)' = processingUsSum
    <3>1. 1 \in Nat \ {0} /\ Inf + 4 \in Nat \ {0} /\ Inf + 3 \in Nat \ {0} BY <1>0
    <3>2. ~(1 <= Len(scrape')) /\ ~(Inf + 4 <= Len(scrape')) /\ ~(Inf + 3 <= Len(scrape'))
      BY <2>2, <3>1
    <3> QED BY <2>1, <3>2 DEF Shown
  <2>5. processingBuckets[Inf] = Reached(Inf) /\ Reached(Inf) \in 0 .. Len(observed)
    BY <1>0, BucketsNow, ReachedBounds
  <2>6. msgCount <= processingBuckets[Inf]
    BY <1>0, <2>5 DEF CountersOK, Reached
  <2>7. Sum(First(observed, processingBuckets[Inf])) <= processingUsSum
    BY <1>0, <2>5, SumsGrow DEF CountersOK
  <2>8. processingBuckets[Inf] <= processingBuckets[Inf] BY <1>0
  <2> QED BY <1>0, <2>1, <2>3, <2>4, <2>5, <2>6, <2>7, <2>8, BucketsNow DEF ScrapeOK
<1>7. CASE CountersKept /\ scrape' # scrape
  <2>1. ScrapeBegins \/ ReadLine
    BY <1>7 DEF vars, Next, FeedStep, feedFrame, ApplyUpdate, RecordSum, RecordBucket,
       CountMessage, TouchAge, Broadcast, Accumulate, ClearBook, ForgetAge, ResetOfi,
       WorkerRestoresBook, KrakenSnapshot, TouchSnapshot
  <2> QED BY <1>5, <1>6, <2>1
<1> QED BY <1>1, <1>2, <1>3, <1>4, <1>7, OthersKeepCounters

-----------------------------------------------------------------------------
(* The accumulator.                                                        *)

\* Sums of a longer sequence fit only if those of the shorter do.
LEMMA FitsOfAppend ==
    ASSUME NEW s \in Seq(Int), NEW x \in Int, Fits(Append(s, x))
    PROVE  Fits(s) /\ Sum(s) + x \in Word
<1> DEFINE r == Append(s, x)
           n == Len(s)
<1>0. /\ n \in Nat /\ DOMAIN s = 1 .. n /\ r \in Seq(Int) /\ Len(r) = n + 1
      /\ DOMAIN r = 1 .. n + 1 /\ \A i \in 1 .. n : r[i] = s[i]
  BY LenProperties, AppendProperties
<1>1. ASSUME NEW i \in 1 .. n PROVE Sum(First(s, i)) \in Word
  <2>1. First(r, i) = First(s, i)
    <3>1. 1 \in 1 .. Len(s) /\ i \in 1 .. Len(s) BY <1>0
    <3>2. r = s \o <<x>> /\ <<x>> \in Seq(Int) BY AppendIsConcat
    <3> HIDE DEF r
    <3> QED BY <3>1, <3>2, SubSeqOfConcat1 DEF First
  <2>2. i \in DOMAIN r BY <1>0
  <2> QED BY <2>1, <2>2 DEF Fits
<1>2. Sum(s) + x \in Word
  <2>1. First(r, n + 1) = r BY <1>0, SubSeqFull DEF First
  <2>2. n + 1 \in DOMAIN r BY <1>0
  <2>3. Sum(First(r, n + 1)) \in Word BY <2>2 DEF Fits
  <2>4. Sum(r) = Sum(s) + x BY SumProperties
  <2> QED BY <2>1, <2>3, <2>4
<1> QED BY <1>0, <1>1, <1>2 DEF Fits

\* What is sent is the last of what was sent since the reset.
LEMMA SendingOne ==
    ASSUME NEW s \in Seq(Word), NEW x \in Word, NEW f \in 0 .. Len(s)
    PROVE  /\ SubSeq(s, f + 1, Len(s)) \in Seq(Word)
           /\ SubSeq(Append(s, x), f + 1, Len(s) + 1) = Append(SubSeq(s, f + 1, Len(s)), x)
<1> DEFINE r == Append(s, x)
           n == Len(s)
<1>0. /\ n \in Nat /\ f \in Nat /\ f <= n /\ r \in Seq(Word) /\ Len(r) = n + 1 /\ r[n + 1] = x
      /\ \A i \in 1 .. n : r[i] = s[i] /\ s[i] \in Word
  BY LenProperties, AppendProperties, ElementOfSeq
<1>1. SubSeq(s, f + 1, n) \in Seq(Word)
  <2>1. \A i \in f + 1 .. n : s[i] \in Word BY <1>0
  <2> QED BY <1>0, <2>1, SubSeqProperties
<1>2. SubSeq(r, f + 1, n + 1) = SubSeq(r, f + 1, n) \o <<x>>
  <2>1. f + 1 \in 1 .. Len(r) /\ n + 1 \in f + 1 .. Len(r) /\ (n + 1) - 1 = n BY <1>0
  <2> HIDE DEF r
  <2>2. SubSeq(r, f + 1, n + 1) = SubSeq(r, f + 1, (n + 1) - 1) \o <<r[n + 1]>>
    BY <1>0, <2>1, SubSeqRecursiveSecond
  <2> QED BY <1>0, <2>1, <2>2
<1>3. SubSeq(r, f + 1, n) = SubSeq(s, f + 1, n)
  <2>1. CASE f < n
    <3>1. f + 1 \in 1 .. n /\ n \in 1 .. n BY <1>0, <2>1
    <3>2. r = s \o <<x>> /\ <<x>> \in Seq(Word) BY AppendIsConcat
    <3> HIDE DEF r
    <3> QED BY <3>1, <3>2, SubSeqOfConcat1
  <2>2. CASE ~(f < n)
    <3>1. n < f + 1 /\ n \in Int /\ f + 1 \in Int BY <1>0, <2>2
    <3> HIDE DEF r
    <3> QED BY <3>1, SubSeqEmpty
  <2> QED BY <2>1, <2>2
<1>4. SubSeq(r, f + 1, n + 1) = Append(SubSeq(s, f + 1, n), x)
  BY <1>1, <1>2, <1>3, AppendIsConcat
<1> QED BY <1>1, <1>4

\* All but the last of one more are the others.
LEMMA FrontOfAppend ==
    ASSUME NEW s \in Seq(Word), NEW x \in Word
    PROVE  Front(Append(s, x)) = s
<1> DEFINE r == Append(s, x)
<1>0. /\ Len(s) \in Nat /\ r \in Seq(Word) /\ Len(r) = Len(s) + 1 /\ r = s \o <<x>>
      /\ <<x>> \in Seq(Word)
  BY LenProperties, AppendProperties, AppendIsConcat
<1>1. Front(r) = SubSeq(r, 1, Len(s)) BY <1>0 DEF Front
<1>2. CASE Len(s) = 0
  <2>1. SubSeq(r, 1, Len(s)) = << >> BY <1>2, SubSeqEmpty
  <2>2. s = << >> BY <1>2, EmptySeq
  <2> QED BY <1>1, <2>1, <2>2
<1>3. CASE Len(s) # 0
  <2>1. 1 \in 1 .. Len(s) /\ Len(s) \in 1 .. Len(s) BY <1>0, <1>3
  <2>2. SubSeq(s \o <<x>>, 1, Len(s)) = SubSeq(s, 1, Len(s)) BY <1>0, <2>1, SubSeqOfConcat1
  <2>3. SubSeq(s, 1, Len(s)) = s BY SubSeqFull
  <2>4. SubSeq(r, 1, Len(s)) = s BY <1>0, <2>2, <2>3
  <2> QED BY <1>1, <2>4
<1> QED BY <1>2, <1>3

\* The sum the callback keeps.
LEMMA AccumulatorStep == TypeOK /\ AccumulatorOK /\ [Next]_vars => AccumulatorOK'
<1> SUFFICES ASSUME TypeOK, AccumulatorOK, [Next]_vars PROVE AccumulatorOK'
  OBVIOUS
<1>0. /\ sent \in Seq(Word) /\ Len(sent) \in Nat /\ firstSent \in 0 .. Len(sent)
      /\ feed \in FeedType /\ ofiAccumulator \in Word /\ Word \subseteq Int
  BY TypeFacts DEF TypeOK, Word, WordMin
<1>1. \A pc : FeedGoto(pc) => feed'.pc = pc BY <1>0 DEF FeedGoto, FeedType
<1> DEFINE Kept == /\ UNCHANGED <<sent, firstSent, ofiAccumulator>>
                   /\ feed' = feed \/ (feed.pc # "accumulate" /\ feed'.pc # "accumulate")
<1>2. CASE Kept
  <2>1. SentSinceReset' = SentSinceReset BY <1>2 DEF SentSinceReset
  <2>2. AccumulatorIsSent BY DEF AccumulatorOK
  <2>3. (feed.pc = "accumulate") = (feed'.pc = "accumulate") BY <1>2
  <2>4. AccumulatorIsSent' BY <1>2, <2>1, <2>2, <2>3 DEF AccumulatorIsSent
  <2> QED BY <1>2, <2>4 DEF AccumulatorOK
<1>3. ASSUME NEW deltas \in Messages, Broadcast(deltas) PROVE AccumulatorOK'
  <2> DEFINE x == OfiOf(deltas)
  <2>1. /\ feed.pc = "callback" /\ sent' = Append(sent, x) /\ UNCHANGED firstSent
        /\ ofiAccumulator' = ofiAccumulator
        /\ feed' = [feed EXCEPT !.pc = "accumulate", !.ofi = x,
                                !.counts = \E i \in DOMAIN deltas : deltas[i].counts]
    BY <1>3 DEF Broadcast, metricsVars
  <2>2. deltas \in Seq(DeltaType) BY <1>3, MetricsAssumption DEF DeltaType
  <2>3. x \in Word /\ ((\A i \in DOMAIN deltas : ~deltas[i].counts) => x = 0)
    BY <2>2, OfiOfMessage
  <2> HIDE DEF x
  <2>4. /\ feed'.pc = "accumulate" /\ feed'.ofi = x
        /\ feed'.counts = \E i \in DOMAIN deltas : deltas[i].counts
    BY <1>0, <2>1 DEF FeedType
  <2>5. ~feed'.counts => feed'.ofi = 0 BY <2>3, <2>4
  <2>6. Len(sent') = Len(sent) + 1 /\ sent'[Len(sent')] = x
    BY <1>0, <2>1, <2>3, AppendProperties
  <2>7. firstSent' < Len(sent') BY <1>0, <2>1, <2>6
  <2>8. SentSinceReset \in Seq(Word) /\ SentSinceReset' = Append(SentSinceReset, x)
    <3>1. /\ SubSeq(sent, firstSent + 1, Len(sent)) \in Seq(Word)
          /\ SubSeq(Append(sent, x), firstSent + 1, Len(sent) + 1)
                = Append(SubSeq(sent, firstSent + 1, Len(sent)), x)
      BY <1>0, <2>3, SendingOne
    <3>2. SentSinceReset' = SubSeq(Append(sent, x), firstSent + 1, Len(sent) + 1)
      BY <2>1, <2>6 DEF SentSinceReset
    <3> QED BY <3>1, <3>2 DEF SentSinceReset
  <2>9. Front(SentSinceReset') = SentSinceReset BY <2>3, <2>8, FrontOfAppend
  <2>10. Fits(SentSinceReset) => ofiAccumulator = Sum(SentSinceReset)
    BY <2>1 DEF AccumulatorOK, AccumulatorIsSent
  <2>11. Front(SentSinceReset)' = SentSinceReset BY <2>9
  <2>12. AccumulatorIsSent'
    <3>1. Fits(Front(SentSinceReset)') => ofiAccumulator' = Sum(Front(SentSinceReset)')
      BY <2>1, <2>10, <2>11
    <3> QED BY <2>4, <3>1 DEF AccumulatorIsSent
  <2> QED BY <2>4, <2>5, <2>6, <2>7, <2>12 DEF AccumulatorOK
<1>4. CASE Accumulate
  <2> DEFINE n == Len(sent)
             x == sent[n]
             before == SubSeq(sent, firstSent + 1, n - 1)
  <2>1. /\ feed.pc = "accumulate" /\ UNCHANGED <<sent, firstSent>>
        /\ ofiAccumulator' = IF feed.counts THEN checkedAdd(ofiAccumulator, feed.ofi)
                             ELSE ofiAccumulator
        /\ feed'.pc = "idle"
    BY <1>4 DEF Accumulate, historyVars, IdleFeed
  <2>2. firstSent < n /\ feed.ofi = x /\ (~feed.counts => x = 0)
    BY <2>1 DEF AccumulatorOK
  <2>3. n \in 1 .. n /\ firstSent + 1 \in 1 .. n /\ n \in firstSent + 1 .. n BY <1>0, <2>2
  <2>4. x \in Word BY <1>0, <2>3, ElementOfSeq
  <2>5. before \in Seq(Word)
    <3>1. \A i \in firstSent + 1 .. n - 1 : sent[i] \in Word
      <4>1. \A i \in firstSent + 1 .. n - 1 : i \in 1 .. n BY <1>0
      <4> QED BY <1>0, <4>1, ElementOfSeq
    <3> QED BY <1>0, <3>1, SubSeqProperties
  <2>6. SentSinceReset = Append(before, x)
    <3>1. SubSeq(sent, firstSent + 1, n) = before \o <<x>>
      BY <1>0, <2>3, SubSeqRecursiveSecond
    <3> HIDE DEF before, x
    <3> QED BY <2>4, <2>5, <3>1, AppendIsConcat DEF SentSinceReset
  <2> HIDE DEF before, x, n
  <2>7. Front(SentSinceReset) = before BY <2>4, <2>5, <2>6, FrontOfAppend
  <2>8. Fits(before) => ofiAccumulator = Sum(before)
    BY <2>1, <2>7 DEF AccumulatorOK, AccumulatorIsSent
  <2>9. before \in Seq(Int) /\ x \in Int BY <1>0, <2>4, <2>5, SeqMonotonic
  <2>10. ASSUME Fits(SentSinceReset) PROVE ofiAccumulator' = Sum(SentSinceReset)
    <3>1. Fits(before) /\ Sum(before) + x \in Word BY <2>6, <2>9, <2>10, FitsOfAppend
    <3>2. ofiAccumulator = Sum(before) BY <2>8, <3>1
    <3>3. Sum(SentSinceReset) = Sum(before) + x BY <2>6, <2>9, SumProperties
    <3>4. CASE feed.counts
      <4>1. checkedAdd(ofiAccumulator, x) = ofiAccumulator + x
        BY <1>0, <2>4, <3>1, <3>2, CheckedAddition
      <4> QED BY <2>1, <2>2, <3>2, <3>3, <3>4, <4>1
    <3>5. CASE ~feed.counts
      <4>1. Sum(before) \in Int BY <2>9, SumProperties
      <4> QED BY <2>1, <2>2, <3>2, <3>3, <3>5, <4>1
    <3> QED BY <3>4, <3>5
  <2>11. SentSinceReset' = SentSinceReset BY <2>1 DEF SentSinceReset
  <2>12. AccumulatorIsSent' BY <2>1, <2>10, <2>11 DEF AccumulatorIsSent
  <2> QED BY <2>1, <2>12 DEF AccumulatorOK
<1>5. CASE ResetOfi
  <2>1. /\ ofiAccumulator' = 0 /\ firstSent' = Len(sent) /\ sent' = sent /\ feed'.pc = "idle"
    BY <1>5 DEF ResetOfi, IdleFeed
  <2>2. SentSinceReset' = << >>
    <3>1. SentSinceReset' = SubSeq(sent, Len(sent) + 1, Len(sent)) BY <2>1 DEF SentSinceReset
    <3>2. Len(sent) < Len(sent) + 1 /\ Len(sent) \in Int /\ Len(sent) + 1 \in Int BY <1>0
    <3> QED BY <3>1, <3>2, SubSeqEmpty
  <2>3. AccumulatorIsSent' BY <2>1, <2>2, SumProperties DEF AccumulatorIsSent
  <2> QED BY <2>1, <2>3 DEF AccumulatorOK
<1>6. ASSUME UNCHANGED vars PROVE Kept
  BY <1>6 DEF vars, metricsVars, historyVars
<1>7. ASSUME NEW us \in Timings, RecordSum(us) PROVE Kept
  BY <1>7 DEF RecordSum, IdleFeed
<1>8. ASSUME RecordBucket PROVE Kept
  <2>1. feed'.pc \in {"record", "count"} BY <1>0, <1>8 DEF RecordBucket, FeedType
  <2> QED BY <1>8, <2>1 DEF RecordBucket, historyVars
<1>9. ASSUME CountMessage PROVE Kept
  BY <1>1, <1>9 DEF CountMessage, historyVars
<1>10. ASSUME TouchAge PROVE Kept
  BY <1>1, <1>10 DEF TouchAge, historyVars
<1>11. ASSUME ClearBook PROVE Kept
  BY <1>1, <1>11 DEF ClearBook, metricsVars, historyVars
<1>12. ASSUME ForgetAge PROVE Kept
  <2>1. feed'.pc \in {"resetOfi", "idle"} BY <1>1, <1>12 DEF ForgetAge
  <2> QED BY <1>12, <2>1 DEF ForgetAge, historyVars
<1>13. ASSUME WorkerRestoresBook PROVE Kept
  BY <1>13 DEF WorkerRestoresBook, metricsVars, historyVars
<1>14. ASSUME KrakenSnapshot PROVE Kept
  BY <1>1, <1>14 DEF KrakenSnapshot, metricsVars, historyVars
<1>15. ASSUME TouchSnapshot PROVE Kept
  BY <1>15 DEF TouchSnapshot, IdleFeed, historyVars
<1>16. ASSUME ScrapeBegins \/ ReadLine PROVE Kept
  BY <1>16 DEF ScrapeBegins, ReadLine, scrapeFrame, metricsVars, historyVars
<1>17. ASSUME ApplyUpdate PROVE Kept
  BY <1>17 DEF ApplyUpdate, IdleFeed, metricsVars, historyVars
<1> HIDE DEF Kept
<1> QED
  BY <1>2, <1>3, <1>4, <1>5, <1>6, <1>7, <1>8, <1>9, <1>10, <1>11, <1>12, <1>13, <1>14, <1>15,
     <1>16, <1>17 DEF Next, FeedStep

-----------------------------------------------------------------------------
(* Ages and types.                                                         *)

\* The age of a symbol follows its book.
LEMMA AgeStep == TypeOK /\ AgeOK /\ [Next]_vars => AgeOK'
<1> SUFFICES ASSUME TypeOK, AgeOK, [Next]_vars PROVE AgeOK'
  OBVIOUS
<1>0. feed \in FeedType BY TypeFacts
<1>1. \A pc : FeedGoto(pc) => feed'.pc = pc BY <1>0 DEF FeedGoto, FeedType
<1>2. CASE UNCHANGED vars BY <1>2 DEF vars, metricsVars, AgeOK
<1>3. ASSUME NEW us \in Timings, RecordSum(us) PROVE AgeOK'
  BY <1>3 DEF RecordSum, AgeOK
<1>4. CASE RecordBucket
  BY <1>4 DEF RecordBucket, AgeOK
<1>5. CASE CountMessage BY <1>5 DEF CountMessage, AgeOK
<1>6. CASE TouchAge BY <1>6 DEF TouchAge, AgeOK
<1>7. ASSUME NEW deltas \in Messages, Broadcast(deltas) PROVE AgeOK'
  BY <1>7 DEF Broadcast, metricsVars, AgeOK
<1>8. CASE Accumulate BY <1>8 DEF Accumulate, IdleFeed, AgeOK
<1>9. CASE ClearBook BY <1>1, <1>9 DEF ClearBook, AgeOK
<1>10. CASE ForgetAge
  <2>1. feed'.pc \in {"resetOfi", "idle"} BY <1>1, <1>10 DEF ForgetAge
  <2> QED BY <1>10, <2>1 DEF ForgetAge, AgeOK
<1>11. CASE ResetOfi BY <1>11 DEF ResetOfi, IdleFeed, AgeOK
<1>12. CASE WorkerRestoresBook BY <1>12 DEF WorkerRestoresBook, AgeOK
<1>13. CASE KrakenSnapshot BY <1>13 DEF KrakenSnapshot, AgeOK
<1>14. CASE TouchSnapshot BY <1>14 DEF TouchSnapshot, IdleFeed, AgeOK
<1>15. CASE ScrapeBegins \/ ReadLine
  BY <1>15 DEF ScrapeBegins, ReadLine, scrapeFrame, metricsVars, AgeOK
<1>16. CASE ApplyUpdate BY <1>16 DEF ApplyUpdate, metricsVars, IdleFeed, AgeOK
<1> QED
  BY <1>2, <1>3, <1>4, <1>5, <1>6, <1>7, <1>8, <1>9, <1>10, <1>11, <1>12, <1>13, <1>14, <1>15,
     <1>16 DEF Next, FeedStep

\* The type of what the feed keeps of its step.
LEMMA FeedStaysTyped == TypeOK /\ [Next]_vars => feed' \in FeedType
<1> SUFFICES ASSUME TypeOK, [Next]_vars PROVE feed' \in FeedType
  OBVIOUS
<1>0. feed \in FeedType /\ Inf \in Nat \ {0} /\ Inf \in Buckets /\ Buckets = 1 .. Inf
  BY TypeFacts, BucketsAscend DEF Buckets
<1>1. 0 \in Word /\ 1 \in Buckets BY <1>0, WordAssumption DEF Word, WordMin
<1>2. IdleFeed \in FeedType BY <1>1 DEF IdleFeed, FeedType, FeedPcs
<1>3. \A pc \in FeedPcs : FeedGoto(pc) => feed' \in FeedType
  BY <1>0 DEF FeedGoto, FeedType
<1>4. CASE UNCHANGED vars BY <1>0, <1>4 DEF vars
<1>5. ASSUME NEW us \in Timings, RecordSum(us) PROVE feed' \in FeedType
  <2>1. feed' = [IdleFeed EXCEPT !.pc = "record", !.us = us] BY <1>5 DEF RecordSum
  <2>2. "record" \in FeedPcs /\ us \in Timings \cup {0} BY <1>5 DEF FeedPcs
  <2> HIDE DEF IdleFeed
  <2> QED BY <1>2, <2>1, <2>2 DEF FeedType
<1>6. CASE RecordBucket
  <2>1. CASE feed.bucket = Inf
    <3>1. feed' = [feed EXCEPT !.pc = "count"] BY <1>6, <2>1 DEF RecordBucket
    <3>2. "count" \in FeedPcs BY DEF FeedPcs
    <3> QED BY <1>0, <3>1, <3>2 DEF FeedType
  <2>2. CASE feed.bucket # Inf
    <3>1. feed' = [feed EXCEPT !.bucket = @ + 1] BY <1>6, <2>2 DEF RecordBucket
    <3>2. feed.bucket \in Buckets BY <1>0 DEF FeedType
    <3>3. feed.bucket + 1 \in Buckets BY <1>0, <2>2, <3>2
    <3> QED BY <1>0, <3>1, <3>3 DEF FeedType
  <2> QED BY <2>1, <2>2
<1>7. CASE CountMessage BY <1>3, <1>7 DEF CountMessage, FeedPcs
<1>8. CASE TouchAge BY <1>3, <1>8 DEF TouchAge, FeedPcs
<1>9. ASSUME NEW deltas \in Messages, Broadcast(deltas) PROVE feed' \in FeedType
  <2> DEFINE x == OfiOf(deltas)
             counts == \E i \in DOMAIN deltas : deltas[i].counts
  <2>1. feed' = [feed EXCEPT !.pc = "accumulate", !.ofi = x, !.counts = counts]
    BY <1>9 DEF Broadcast
  <2>2. deltas \in Seq(DeltaType) BY <1>9, MetricsAssumption DEF DeltaType
  <2>3. x \in Word BY <2>2, OfiOfMessage
  <2>4. counts \in BOOLEAN /\ "accumulate" \in FeedPcs BY DEF FeedPcs
  <2> HIDE DEF x, counts
  <2> QED BY <1>0, <2>1, <2>3, <2>4 DEF FeedType
<1>10. CASE Accumulate BY <1>2, <1>10 DEF Accumulate
<1>11. CASE ClearBook BY <1>3, <1>11 DEF ClearBook, FeedPcs
<1>12. CASE ForgetAge BY <1>3, <1>12 DEF ForgetAge, FeedPcs
<1>13. CASE ResetOfi BY <1>2, <1>13 DEF ResetOfi
<1>14. CASE WorkerRestoresBook BY <1>0, <1>14 DEF WorkerRestoresBook
<1>15. CASE KrakenSnapshot BY <1>3, <1>15 DEF KrakenSnapshot, FeedPcs
<1>16. CASE TouchSnapshot BY <1>2, <1>16 DEF TouchSnapshot
<1>17. CASE ScrapeBegins \/ ReadLine BY <1>0, <1>17 DEF ScrapeBegins, ReadLine, scrapeFrame
<1>18. CASE ApplyUpdate
  <2>1. feed' = [IdleFeed EXCEPT !.pc = "applied"] BY <1>18 DEF ApplyUpdate
  <2>2. "applied" \in FeedPcs BY DEF FeedPcs
  <2> HIDE DEF IdleFeed
  <2> QED BY <1>2, <2>1, <2>2 DEF FeedType
<1> QED
  BY <1>4, <1>5, <1>6, <1>7, <1>8, <1>9, <1>10, <1>11, <1>12, <1>13, <1>14, <1>15, <1>16, <1>17,
     <1>18 DEF Next, FeedStep

\* The histories and the scrape stay sequences.
LEMMA SequencesStayTyped ==
    TypeOK /\ [Next]_vars =>
        /\ observed' \in Seq(Timings)
        /\ sent' \in Seq(Word) /\ firstSent' \in 0 .. Len(sent')
        /\ scrape' \in Seq(Int) /\ Len(scrape') \in Nat /\ Len(scrape') <= Inf + 5
<1> SUFFICES ASSUME TypeOK, [Next]_vars
             PROVE  /\ observed' \in Seq(Timings)
                    /\ sent' \in Seq(Word) /\ firstSent' \in 0 .. Len(sent')
                    /\ scrape' \in Seq(Int) /\ Len(scrape') \in Nat /\ Len(scrape') <= Inf + 5
  OBVIOUS
<1>0. /\ observed \in Seq(Timings) /\ sent \in Seq(Word) /\ firstSent \in 0 .. Len(sent)
      /\ Len(sent) \in Nat /\ scrape \in Seq(Int) /\ Len(scrape) \in Nat
      /\ Len(scrape) <= Inf + 5 /\ Inf \in Nat
  BY TypeFacts, BucketsAscend DEF TypeOK
<1>1. observed' \in Seq(Timings)
  <2>1. ASSUME NEW us \in Timings, RecordSum(us) PROVE observed' \in Seq(Timings)
    <3>1. observed' = Append(observed, us) BY <2>1 DEF RecordSum
    <3> QED BY <1>0, <3>1, AppendProperties
  <2>2. CASE ~\E us \in Timings : RecordSum(us)
    <3>1. observed' = observed
      BY <2>2 DEF vars, Next, FeedStep, historyVars, scrapeFrame, ApplyUpdate, RecordBucket,
         CountMessage, TouchAge, Broadcast, Accumulate, ClearBook, ForgetAge, ResetOfi,
         WorkerRestoresBook, KrakenSnapshot, TouchSnapshot, ScrapeBegins, ReadLine
    <3> QED BY <1>0, <3>1
  <2> QED BY <2>1, <2>2
<1>2. sent' \in Seq(Word) /\ firstSent' \in 0 .. Len(sent')
  <2>1. ASSUME NEW deltas \in Messages, Broadcast(deltas)
        PROVE  sent' \in Seq(Word) /\ firstSent' \in 0 .. Len(sent')
    <3>1. sent' = Append(sent, OfiOf(deltas)) /\ firstSent' = firstSent
      BY <2>1 DEF Broadcast
    <3>2. deltas \in Seq(DeltaType) BY <2>1, MetricsAssumption DEF DeltaType
    <3>3. OfiOf(deltas) \in Word BY <3>2, OfiOfMessage
    <3>4. sent' \in Seq(Word) /\ Len(sent') = Len(sent) + 1
      BY <1>0, <3>1, <3>3, AppendProperties
    <3> QED BY <1>0, <3>1, <3>4
  <2>2. CASE ResetOfi
    <3>1. sent' = sent /\ firstSent' = Len(sent) BY <2>2 DEF ResetOfi
    <3> QED BY <1>0, <3>1
  <2>3. CASE ~(\E deltas \in Messages : Broadcast(deltas)) /\ ~ResetOfi
    <3>1. sent' = sent /\ firstSent' = firstSent
      BY <2>3 DEF vars, Next, FeedStep, historyVars, scrapeFrame, ApplyUpdate, RecordSum,
         RecordBucket, CountMessage, TouchAge, Accumulate, ClearBook, ForgetAge,
         WorkerRestoresBook, KrakenSnapshot, TouchSnapshot, ScrapeBegins, ReadLine
    <3> QED BY <1>0, <3>1
  <2> QED BY <2>1, <2>2, <2>3
<1>3. scrape' \in Seq(Int) /\ Len(scrape') \in Nat /\ Len(scrape') <= Inf + 5
  <2>1. CASE ScrapeBegins
    <3>1. scrape' = << >> BY <2>1 DEF ScrapeBegins
    <3>2. << >> \in Seq(Int) /\ Len(<< >>) = 0 OBVIOUS
    <3> QED BY <1>0, <3>1, <3>2
  <2>2. CASE ReadLine
    <3>1. Len(scrape) < Len(Lines) /\ scrape' = Append(scrape, Lines[Len(scrape) + 1])
      BY <2>2 DEF ReadLine
    <3>2. Lines \in Seq(Int) /\ Len(Lines) = Inf + 5 BY TypeFacts
    <3>3. Len(scrape) + 1 \in 1 .. Len(Lines) BY <1>0, <3>1, <3>2
    <3>4. Lines[Len(scrape) + 1] \in Int BY <3>2, <3>3, ElementOfSeq
    <3>5. scrape' \in Seq(Int) /\ Len(scrape') = Len(scrape) + 1
      BY <1>0, <3>1, <3>4, AppendProperties, SMTT(60)
    <3> QED BY <1>0, <3>1, <3>2, <3>5
  <2>3. CASE ~ScrapeBegins /\ ~ReadLine
    <3>1. scrape' = scrape
      BY <2>3 DEF vars, Next, FeedStep, feedFrame, ApplyUpdate, RecordSum, RecordBucket,
         CountMessage, TouchAge, Broadcast, Accumulate, ClearBook, ForgetAge, ResetOfi,
         WorkerRestoresBook, KrakenSnapshot, TouchSnapshot
    <3> QED BY <1>0, <3>1, SMTT(60)
  <2> QED BY <2>1, <2>2, <2>3
<1> QED BY <1>1, <1>2, <1>3

\* The metrics stay in their bounds, since they follow the observations.
LEMMA TypeStep == TypeOK /\ CountersOK' /\ [Next]_vars => TypeOK'
<1> SUFFICES ASSUME TypeOK, CountersOK', [Next]_vars PROVE TypeOK'
  OBVIOUS
<1>0. Inf \in Nat \ {0} /\ Inf \in Buckets /\ Buckets = 1 .. Inf /\ MaxUpdates \in Nat
  BY BucketsAscend, MetricsAssumption DEF Buckets
<1>1. /\ feed' \in FeedType /\ observed' \in Seq(Timings)
      /\ sent' \in Seq(Word) /\ firstSent' \in 0 .. Len(sent')
      /\ scrape' \in Seq(Int) /\ Len(scrape') \in Nat /\ Len(scrape') <= Inf + 5
  BY FeedStaysTyped, SequencesStayTyped, SMTT(60)
<1>2. exchange' \in {"binance", "kraken"} /\ applied' \in BOOLEAN
  <2>1. exchange' = exchange /\ (applied' = applied \/ applied' = TRUE \/ applied' = FALSE)
    BY DEF vars, Next, FeedStep, feedFrame, scrapeFrame, ApplyUpdate, RecordSum, RecordBucket,
       CountMessage, TouchAge, Broadcast, Accumulate, ClearBook, ForgetAge, ResetOfi,
       WorkerRestoresBook, KrakenSnapshot, TouchSnapshot, ScrapeBegins, ReadLine
  <2> QED BY <2>1 DEF TypeOK
<1>3. lastUpdateTimeMs' \in {0, 1}
  <2>1. lastUpdateTimeMs' = lastUpdateTimeMs \/ lastUpdateTimeMs' \in {0, 1}
    BY DEF vars, metricsVars, Next, FeedStep, feedFrame, scrapeFrame, ApplyUpdate, RecordSum,
       RecordBucket, CountMessage, TouchAge, Broadcast, Accumulate, ClearBook, ForgetAge,
       ResetOfi, WorkerRestoresBook, KrakenSnapshot, TouchSnapshot, ScrapeBegins, ReadLine
  <2> QED BY <2>1, SMTT(60) DEF TypeOK
<1>4. ofiAccumulator' \in Word
  <2>1. CASE Accumulate
    <3>1. ofiAccumulator' = IF feed.counts THEN checkedAdd(ofiAccumulator, feed.ofi)
                            ELSE ofiAccumulator
      BY <2>1 DEF Accumulate
    <3>2. ofiAccumulator \in Word /\ feed.ofi \in Word BY SMTT(60) DEF TypeOK
    <3> QED BY <3>1, <3>2, CheckedAddition
  <2>2. CASE ~Accumulate
    <3>1. ofiAccumulator' = ofiAccumulator \/ ofiAccumulator' = 0
      BY <2>2 DEF vars, metricsVars, Next, FeedStep, feedFrame, scrapeFrame, ApplyUpdate,
         RecordSum, RecordBucket, CountMessage, TouchAge, Broadcast, ClearBook, ForgetAge,
         ResetOfi, WorkerRestoresBook, KrakenSnapshot, TouchSnapshot, ScrapeBegins, ReadLine
    <3>2. ofiAccumulator \in Word /\ 0 \in Word BY WordAssumption DEF TypeOK, Word, WordMin
    <3> QED BY <3>1, <3>2, SMTT(60)
  <2> QED BY <2>1, <2>2
<1>5. /\ observed' \in Seq(Nat) /\ observed' \in Seq(Int) /\ Len(observed') \in Nat
      /\ Len(observed') <= MaxUpdates
  <2>1. observed' \in Seq(Nat) /\ observed' \in Seq(Int)
    <3>1. Timings \subseteq Nat /\ Timings \subseteq Int BY MetricsAssumption
    <3> QED BY <1>1, <3>1, SeqMonotonic
  <2>2. Len(observed') \in Nat BY <2>1, LenProperties
  <2> QED BY <2>1, <2>2 DEF CountersOK
<1>6. msgCount' \in 0 .. MaxUpdates BY <1>5, MetricsAssumption DEF CountersOK
<1>7. processingUsSum' \in Nat
  <2>1. processingUsSum' = Sum(observed') BY DEF CountersOK
  <2>2. Sum(First(observed', 0)) <= Sum(observed') /\ Sum(observed') \in Int
    <3>1. 0 \in 0 .. Len(observed') BY <1>5
    <3> QED BY <1>5, <3>1, SumsGrow, SumProperties
  <2>3. First(observed', 0) = << >> BY SubSeqEmpty DEF First
  <2>4. Sum(First(observed', 0)) = 0 BY <2>3, SumProperties
  <2> QED BY <2>1, <2>2, <2>4
<1>8. processingBuckets' \in [Buckets -> 0 .. MaxUpdates]
  <2>1. ASSUME NEW i \in Buckets PROVE processingBuckets'[i] \in 0 .. MaxUpdates
    <3> DEFINE n == Reached(i)'
    <3>1. n \in 0 .. Len(observed') BY <1>5 DEF Reached, CountersOK
    <3>2. processingBuckets'[i] = Cardinality(Falling(observed', n, i)) BY DEF CountersOK
    <3> HIDE DEF n
    <3>3. Cardinality(Falling(observed', n, i)) \in 0 .. n BY <1>5, <3>1, FallingIsFinite
    <3> QED BY <1>5, <3>1, <3>2, <3>3, MetricsAssumption
  <2>2. DOMAIN processingBuckets' = Buckets
    /\ processingBuckets' = [i \in DOMAIN processingBuckets' |-> processingBuckets'[i]]
    <3>0. processingBuckets \in [Buckets -> 0 .. MaxUpdates] BY DEF TypeOK
    <3>1. CASE RecordBucket BY <3>0, <3>1 DEF RecordBucket
    <3>2. CASE ~RecordBucket
      <4>1. processingBuckets' = processingBuckets
        BY <3>2 DEF vars, metricsVars, Next, FeedStep, feedFrame, scrapeFrame, ApplyUpdate,
           RecordSum, Accumulate, CountMessage, TouchAge, Broadcast, ClearBook, ForgetAge,
           ResetOfi, WorkerRestoresBook, KrakenSnapshot, TouchSnapshot, ScrapeBegins, ReadLine
      <4> QED BY <3>0, <4>1, SMTT(60)
    <3> QED BY <3>1, <3>2
  <2> QED BY <2>1, <2>2
<1>9. Len(scrape') <= Len(Lines')
  <2>1. /\ msgCount' \in Int /\ lastUpdateTimeMs' \in Int /\ processingUsSum' \in Int
        /\ ofiAccumulator' \in Int /\ processingBuckets' \in [Buckets -> Int]
    BY <1>3, <1>4, <1>6, <1>7, <1>8 DEF Word, WordMin
  <2>2. Lines' = LinesOf(msgCount', lastUpdateTimeMs', processingBuckets', processingUsSum',
                         ofiAccumulator')
    BY DEF Lines, LinesOf
  <2>3. Len(Lines') = Inf + 5 BY <2>1, <2>2, LinesAre
  <2> QED BY <1>1, <2>3
<1> QED
  BY <1>1, <1>2, <1>3, <1>4, <1>6, <1>7, <1>8, <1>9 DEF TypeOK, FeedType

-----------------------------------------------------------------------------
(* The theorems.                                                           *)

\* The metrics of a new runtime.
LEMMA InitialInvariant == Init => IInv
<1> SUFFICES ASSUME Init PROVE IInv
  OBVIOUS
<1>0. /\ Inf \in Nat \ {0} /\ Inf \in Buckets /\ Buckets = 1 .. Inf
      /\ 0 \in Word /\ 1 \in Buckets /\ MaxUpdates \in Nat
  BY BucketsAscend, MetricsAssumption, WordAssumption DEF Buckets, Word, WordMin
<1>1. /\ observed = << >> /\ sent = << >> /\ firstSent = 0 /\ feed = IdleFeed
      /\ msgCount = 0 /\ processingUsSum = 0 /\ lastUpdateTimeMs = 0 /\ ofiAccumulator = 0
      /\ processingBuckets = [i \in Buckets |-> 0] /\ scrape = Lines /\ applied = TRUE
      /\ exchange \in {"binance", "kraken"}
  BY DEF Init
<1>2. \A T : << >> \in Seq(T) /\ Len(<< >>) = 0 OBVIOUS
<1>3. feed \in FeedType /\ feed.pc = "idle"
  BY <1>0, <1>1 DEF IdleFeed, FeedType, FeedPcs
<1>4. /\ Lines \in Seq(Int) /\ Len(Lines) = Inf + 5 /\ Lines[1] = 0
      /\ \A i \in Buckets : Lines[i + 2] = 0
      /\ Lines[Inf + 3] = 0 /\ Lines[Inf + 4] = 0
  <2>2. processingBuckets \in [Buckets -> Int] /\ processingBuckets[Inf] = 0
        /\ \A i \in Buckets : processingBuckets[i] = 0
    BY <1>0, <1>1
  <2>3. msgCount \in Int /\ lastUpdateTimeMs \in Int /\ processingUsSum \in Int
        /\ ofiAccumulator \in Int
    BY <1>1
  <2>4. /\ Lines \in Seq(Int) /\ Len(Lines) = Inf + 5 /\ Lines[1] = msgCount
        /\ \A i \in Buckets : Lines[i + 2] = processingBuckets[i]
        /\ Lines[Inf + 3] = processingUsSum /\ Lines[Inf + 4] = processingBuckets[Inf]
    <3>1. processingBuckets \in [Buckets -> Int] BY <2>2
    <3> QED BY <2>3, <3>1, LinesNow
  <2> QED BY <1>1, <2>2, <2>4
<1>5. TypeOK
  <2>1. scrape \in Seq(Int) /\ Len(scrape) <= Len(Lines) BY <1>0, <1>1, <1>4
  <2>2. processingBuckets \in [Buckets -> 0 .. MaxUpdates] BY <1>0, <1>1
  <2>3. /\ observed \in Seq(Timings) /\ sent \in Seq(Word) /\ firstSent \in 0 .. Len(sent)
        /\ msgCount \in 0 .. MaxUpdates /\ processingUsSum \in Nat /\ ofiAccumulator \in Word
        /\ applied \in BOOLEAN /\ lastUpdateTimeMs \in {0, 1}
    BY <1>0, <1>1, <1>2
  <2> QED BY <1>1, <1>3, <2>1, <2>2, <2>3 DEF TypeOK, FeedType
<1>6. CountersOK
  <2>1. \A i \in Buckets : Reached(i) = 0 BY <1>1, <1>2, <1>3 DEF Reached
  <2>2. \A i \in Buckets : Cardinality(Falling(observed, 0, i)) = 0
    <3>1. 0 \in 0 .. Len(observed) /\ observed \in Seq(Nat) BY <1>1, <1>2
    <3>2. \A i \in Buckets : Cardinality(Falling(observed, 0, i)) \in 0 .. 0
      BY <3>1, FallingIsFinite
    <3> QED BY <3>2
  <2>3. \A i \in Buckets : processingBuckets[i] = 0 BY <1>1
  <2>4. processingUsSum = Sum(observed) BY <1>1, SumProperties
  <2>5. Len(observed) = 0 BY <1>1, <1>2
  <2> QED BY <1>0, <1>1, <1>3, <2>1, <2>2, <2>3, <2>4, <2>5 DEF CountersOK
<1>7. ScrapeOK
  <2>1. ASSUME NEW n \in 1 .. Inf + 5, NEW c PROVE Shown(n, c) = Lines[n]
    <3>1. n <= Len(scrape) BY <1>0, <1>1, <1>4
    <3> QED BY <1>1, <3>1 DEF Shown
  <2>2. \A i \in Buckets : ShownBucket(i) = 0
    <3> SUFFICES ASSUME NEW i \in Buckets PROVE ShownBucket(i) = 0
      OBVIOUS
    <3>1. i + 2 \in 1 .. Inf + 5 BY <1>0
    <3> QED BY <1>4, <2>1, <3>1 DEF ShownBucket
  <2>3. /\ Shown(1, msgCount) = 0 /\ Shown(Inf + 4, processingBuckets[Inf]) = 0
        /\ Shown(Inf + 3, processingUsSum) = 0
    <3>1. 1 \in 1 .. Inf + 5 /\ Inf + 4 \in 1 .. Inf + 5 /\ Inf + 3 \in 1 .. Inf + 5 BY <1>0
    <3> QED BY <1>4, <2>1, <3>1
  <2>4. Sum(First(observed, 0)) = 0
    <3>1. First(observed, 0) = << >> BY SubSeqEmpty DEF First
    <3> QED BY <3>1, SumProperties
  <2>5. 0 \in 0 .. Len(observed) BY <1>1, <1>2
  <2> QED BY <1>0, <2>2, <2>3, <2>4, <2>5 DEF ScrapeOK
<1>8. AccumulatorOK
  <2>1. SentSinceReset = << >> BY <1>1, <1>2, SubSeqEmpty DEF SentSinceReset
  <2> QED BY <1>1, <1>3, <2>1, SumProperties DEF AccumulatorOK, AccumulatorIsSent
<1>9. AgeOK BY <1>1, <1>3 DEF AgeOK
<1> QED BY <1>5, <1>6, <1>7, <1>8, <1>9 DEF IInv

\* The inductive invariant behind the theorems below holds of every feed and scrape
\* (metrics.hpp:4-39).
THEOREM InductiveInvariant == Spec => []IInv
<1>1. Init => IInv BY InitialInvariant
<1>2. IInv /\ [Next]_vars => IInv'
  <2> SUFFICES ASSUME IInv, [Next]_vars PROVE IInv'
    OBVIOUS
  <2>1. TypeOK /\ CountersOK /\ ScrapeOK /\ AccumulatorOK /\ AgeOK BY DEF IInv
  <2>2. CountersOK' BY <2>1, CountersStep
  <2>3. TypeOK' BY <2>1, <2>2, TypeStep
  <2>4. ScrapeOK' BY <2>1, <2>2, ScrapeStep
  <2>5. AccumulatorOK' BY <2>1, AccumulatorStep
  <2>6. AgeOK' BY <2>1, AgeStep
  <2> QED BY <2>2, <2>3, <2>4, <2>5, <2>6 DEF IInv
<1> QED BY <1>1, <1>2, PTL DEF Spec

\* The metrics stay within their types; in particular, nothing the callback computes or
\* stores leaves the word, however many messages of whatever size arrive.
THEOREM TypeCorrect == Spec => []TypeOK
<1>1. IInv => TypeOK BY DEF IInv
<1> QED BY <1>1, InductiveInvariant, PTL

\* At rest the histogram is that of the observations, for any bounds of the buckets.
THEOREM HistogramIsExact == Spec => []BucketsCountObservations
<1>1. IInv => BucketsCountObservations
  <2> SUFFICES ASSUME IInv, feed.pc # "record" PROVE BucketsCountObservations
    BY DEF BucketsCountObservations
  <2>1. TypeOK /\ CountersOK BY DEF IInv
  <2>2. /\ observed \in Seq(Nat) /\ DOMAIN observed = 1 .. Len(observed)
        /\ Inf \in Nat \ {0} /\ Buckets = 1 .. Inf /\ DOMAIN BucketBounds = 1 .. Inf - 1
    BY <2>1, TypeFacts, BucketsAscend, LenProperties DEF Buckets
  <2>3. \A i \in Buckets : Reached(i) = Len(observed) BY DEF Reached
  <2>4. ASSUME NEW i \in DOMAIN BucketBounds
        PROVE  processingBuckets[i] =
                   Cardinality({k \in DOMAIN observed : observed[k] <= BucketBounds[i]})
    <3>1. i \in Buckets /\ i # Inf BY <2>2
    <3>2. Falling(observed, Len(observed), i) =
            {k \in DOMAIN observed : observed[k] <= BucketBounds[i]}
      BY <2>2, <3>1 DEF Falling, InBucket
    <3>3. processingBuckets[i] = Cardinality(Falling(observed, Len(observed), i))
      BY <2>1, <2>3, <3>1 DEF CountersOK
    <3> QED BY <3>2, <3>3
  <2>5. processingBuckets[Inf] = Len(observed)
    <3>1. Inf \in Buckets BY <2>2
    <3> QED BY <2>1, <2>3, <3>1, BucketsNow
  <2>6. processingUsSum = Sum(observed) BY <2>1 DEF CountersOK
  <2> QED BY <2>4, <2>5, <2>6 DEF BucketsCountObservations
<1> QED BY <1>1, InductiveInvariant, PTL

\* What a scrape has read is consistent, although every line was read at another
\* moment.
THEOREM ScrapesAreConsistent == Spec => []ScrapeIsConsistent
<1>1. IInv => ScrapeIsConsistent
  <2> SUFFICES ASSUME IInv, Scraped PROVE ScrapeIsConsistent
    BY DEF ScrapeIsConsistent
  <2>1. TypeOK /\ ScrapeOK BY DEF IInv
  <2>2. Len(scrape) = Inf + 5 /\ Inf \in Nat \ {0} /\ Inf \in Buckets /\ Buckets = 1 .. Inf
    BY <2>1, TypeFacts, BucketsAscend DEF Scraped, Buckets
  <2>3. ASSUME NEW i \in Buckets PROVE ShownBucket(i) = ReadBucket(i)
    <3>1. i + 2 <= Len(scrape) BY <2>2
    <3> QED BY <3>1 DEF ShownBucket, Shown, ReadBucket
  <2>4. Shown(1, msgCount) = ReadMessages
    <3>1. 1 <= Len(scrape) BY <2>2
    <3> QED BY <3>1 DEF Shown, ReadMessages
  <2>5. Shown(Inf + 4, processingBuckets[Inf]) = ReadCount
    <3>1. Inf + 4 <= Len(scrape) BY <2>2
    <3> QED BY <3>1 DEF Shown, ReadCount
  <2>6. Shown(Inf + 3, processingUsSum) = ReadSum
    <3>1. Inf + 3 <= Len(scrape) BY <2>2
    <3> QED BY <3>1 DEF Shown, ReadSum
  <2> QED BY <2>1, <2>2, <2>3, <2>4, <2>5, <2>6 DEF ScrapeOK, ScrapeIsConsistent
<1> QED BY <1>1, InductiveInvariant, PTL

\* The accumulator is the sum of what was sent, as long as that is a word.
THEOREM AccumulatorFollowsBroadcasts == Spec => []AccumulatorIsSent
<1>1. IInv => AccumulatorIsSent BY DEF IInv, AccumulatorOK
<1> QED BY <1>1, InductiveInvariant, PTL

\* A symbol at rest has an age only while it has a book.
THEOREM AgesFollowBooks == Spec => []AgeOnlyWithBook
<1>1. IInv => AgeOnlyWithBook BY DEF IInv, AgeOK, AgeOnlyWithBook
<1> QED BY <1>1, InductiveInvariant, PTL
=============================================================================
