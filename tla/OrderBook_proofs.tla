--------------------------- MODULE OrderBook_proofs ---------------------------
(***************************************************************************)
(* An order book for any ladders, view depth and messages: types, the      *)
(* cleared book, the OFI view as the top of the ladder, and what the       *)
(* deltas of an update tell.  The last two need prices on the tick grid: a *)
(* ladder stores a price off the grid in the slot of another price, the    *)
(* view keeps it as it came.                                               *)
(***************************************************************************)
EXTENDS OrderBook, PriceLadder_proofs, SequenceTheorems

Level == Int \X Nat

\* A view is in order, best level first.
Ordered(side, view) ==
    \A i, j \in DOMAIN view : i < j => Better(side, PriceOf(view[i]), PriceOf(view[j]))

-----------------------------------------------------------------------------
(* Sequences with one element more or less.                                *)

\* What RemoveAt leaves.
LEMMA RemoveAtProperties ==
    ASSUME NEW S, NEW s \in Seq(S), NEW k \in 1 .. Len(s)
    PROVE  /\ RemoveAt(s, k) \in Seq(S) /\ Len(RemoveAt(s, k)) = Len(s) - 1
           /\ \A j \in 1 .. Len(s) - 1 : RemoveAt(s, k)[j] = IF j < k THEN s[j] ELSE s[j + 1]
<1> DEFINE n == Len(s)
           a == SubSeq(s, 1, k - 1)
           b == SubSeq(s, k + 1, n)
<1>0. n \in Nat /\ k \in 1 .. n /\ \A i \in 1 .. n : s[i] \in S
  BY LenProperties, ElementOfSeq
<1>1. /\ a \in Seq(S) /\ Len(a) = k - 1 /\ \A i \in 1 .. k - 1 : a[i] = s[i]
  <2>1. \A i \in 1 .. k - 1 : s[i] \in S BY <1>0
  <2>2. 1 \in Int /\ k - 1 \in Int BY <1>0
  <2>3. /\ a \in Seq(S) /\ Len(a) = IF 1 <= k - 1 THEN k - 1 - 1 + 1 ELSE 0
        /\ \A i \in 1 .. k - 1 - 1 + 1 : a[i] = s[1 + i - 1]
    BY <2>1, <2>2, SubSeqProperties
  <2>4. \A i \in 1 .. k - 1 : i \in 1 .. k - 1 - 1 + 1 /\ 1 + i - 1 = i BY <1>0
  <2> HIDE DEF a
  <2> QED BY <1>0, <2>3, <2>4
<1>2. /\ b \in Seq(S) /\ Len(b) = n - k /\ \A i \in 1 .. n - k : b[i] = s[k + i]
  <2>1. \A i \in k + 1 .. n : s[i] \in S BY <1>0
  <2>2. k + 1 \in Int /\ n \in Int BY <1>0
  <2>3. /\ b \in Seq(S) /\ Len(b) = IF k + 1 <= n THEN n - (k + 1) + 1 ELSE 0
        /\ \A i \in 1 .. n - (k + 1) + 1 : b[i] = s[(k + 1) + i - 1]
    BY <2>1, <2>2, SubSeqProperties
  <2>4. \A i \in 1 .. n - k : i \in 1 .. n - (k + 1) + 1 /\ (k + 1) + i - 1 = k + i BY <1>0
  <2> HIDE DEF b
  <2> QED BY <1>0, <2>3, <2>4
<1> HIDE DEF a, b
<1>3. /\ a \o b \in Seq(S) /\ Len(a \o b) = n - 1
      /\ \A i \in 1 .. n - 1 : (a \o b)[i] = IF i <= k - 1 THEN a[i] ELSE b[i - (k - 1)]
  <2>1. /\ a \o b \in Seq(S) /\ Len(a \o b) = Len(a) + Len(b)
        /\ \A i \in 1 .. Len(a) + Len(b) :
              (a \o b)[i] = IF i <= Len(a) THEN a[i] ELSE b[i - Len(a)]
    BY <1>1, <1>2, ConcatProperties
  <2>2. Len(a) + Len(b) = n - 1 BY <1>0, <1>1, <1>2
  <2> QED BY <1>1, <2>1, <2>2
<1>4. ASSUME NEW j \in 1 .. n - 1
      PROVE  (a \o b)[j] = IF j < k THEN s[j] ELSE s[j + 1]
  <2>1. CASE j < k
    <3>1. j \in 1 .. k - 1 /\ j <= k - 1 BY <1>0, <2>1
    <3> QED BY <1>1, <1>3, <2>1, <3>1
  <2>2. CASE ~(j < k)
    <3>1. ~(j <= k - 1) /\ j - (k - 1) \in 1 .. n - k /\ k + (j - (k - 1)) = j + 1
      BY <1>0, <2>2
    <3> QED BY <1>2, <1>3, <2>2, <3>1
  <2> QED BY <2>1, <2>2
<1>5. RemoveAt(s, k) = a \o b BY DEF RemoveAt, a, b
<1> QED BY <1>3, <1>4, <1>5

\* A sequence of one element more.
Inserted(r, s, k, e, S) ==
    /\ r \in Seq(S) /\ Len(r) = Len(s) + 1
    /\ \A j \in 1 .. Len(s) + 1 : r[j] = IF j < k THEN s[j] ELSE IF j = k THEN e ELSE s[j - 1]

\* What InsertAt adds.
LEMMA InsertAtProperties ==
    ASSUME NEW S, NEW s \in Seq(S), NEW k \in 1 .. Len(s) + 1, NEW e \in S
    PROVE  Inserted(InsertAt(s, k, e), s, k, e, S)
<1> DEFINE n == Len(s)
           a == SubSeq(s, 1, k - 1)
           c == a \o <<e>>
           b == SubSeq(s, k, n)
<1>0. n \in Nat /\ k \in 1 .. n + 1 /\ \A i \in 1 .. n : s[i] \in S
  BY LenProperties, ElementOfSeq
<1>1. /\ a \in Seq(S) /\ Len(a) = k - 1 /\ \A i \in 1 .. k - 1 : a[i] = s[i]
  <2>1. \A i \in 1 .. k - 1 : s[i] \in S BY <1>0
  <2>2. 1 \in Int /\ k - 1 \in Int BY <1>0
  <2>3. /\ a \in Seq(S) /\ Len(a) = IF 1 <= k - 1 THEN k - 1 - 1 + 1 ELSE 0
        /\ \A i \in 1 .. k - 1 - 1 + 1 : a[i] = s[1 + i - 1]
    BY <2>1, <2>2, SubSeqProperties
  <2>4. \A i \in 1 .. k - 1 : i \in 1 .. k - 1 - 1 + 1 /\ 1 + i - 1 = i BY <1>0
  <2> HIDE DEF a
  <2> QED BY <1>0, <2>3, <2>4
<1>2. /\ b \in Seq(S) /\ Len(b) = n - k + 1 /\ \A i \in 1 .. n - k + 1 : b[i] = s[k + i - 1]
  <2>1. \A i \in k .. n : s[i] \in S BY <1>0
  <2>2. k \in Int /\ n \in Int BY <1>0
  <2>3. /\ b \in Seq(S) /\ Len(b) = IF k <= n THEN n - k + 1 ELSE 0
        /\ \A i \in 1 .. n - k + 1 : b[i] = s[k + i - 1]
    BY <2>1, <2>2, SubSeqProperties
  <2> HIDE DEF b
  <2> QED BY <1>0, <2>3
<1> HIDE DEF a, b
<1>3. /\ c \in Seq(S) /\ Len(c) = k /\ c[k] = e /\ \A i \in 1 .. k - 1 : c[i] = s[i]
  <2>1. Append(a, e) = c BY <1>1, AppendIsConcat
  <2>2. /\ Append(a, e) \in Seq(S) /\ Len(Append(a, e)) = Len(a) + 1
        /\ \A i \in 1 .. Len(a) : Append(a, e)[i] = a[i]
        /\ Append(a, e)[Len(a) + 1] = e
    BY <1>1, AppendProperties
  <2>3. Len(a) + 1 = k /\ Len(a) = k - 1 BY <1>0, <1>1
  <2> HIDE DEF c
  <2> QED BY <1>1, <2>1, <2>2, <2>3
<1> HIDE DEF c
<1>4. /\ c \o b \in Seq(S) /\ Len(c \o b) = n + 1
      /\ \A i \in 1 .. n + 1 : (c \o b)[i] = IF i <= k THEN c[i] ELSE b[i - k]
  <2>1. /\ c \o b \in Seq(S) /\ Len(c \o b) = Len(c) + Len(b)
        /\ \A i \in 1 .. Len(c) + Len(b) :
              (c \o b)[i] = IF i <= Len(c) THEN c[i] ELSE b[i - Len(c)]
    BY <1>2, <1>3, ConcatProperties
  <2>2. Len(c) + Len(b) = n + 1 BY <1>0, <1>2, <1>3
  <2> QED BY <1>3, <2>1, <2>2
<1>5. ASSUME NEW j \in 1 .. n + 1
      PROVE  (c \o b)[j] = IF j < k THEN s[j] ELSE IF j = k THEN e ELSE s[j - 1]
  <2>1. CASE j < k
    <3>1. j \in 1 .. k - 1 /\ j <= k BY <1>0, <2>1
    <3> QED BY <1>3, <1>4, <2>1, <3>1
  <2>2. CASE j = k BY <1>0, <1>3, <1>4, <2>2
  <2>3. CASE ~(j < k) /\ j # k
    <3>1. ~(j <= k) /\ j - k \in 1 .. n - k + 1 /\ k + (j - k) - 1 = j - 1
      BY <1>0, <2>3
    <3> QED BY <1>2, <1>4, <2>3, <3>1
  <2> QED BY <2>1, <2>2, <2>3
<1>6. InsertAt(s, k, e) = c \o b BY DEF InsertAt, a, b, c
<1> QED BY <1>4, <1>5, <1>6 DEF Inserted

\* All but the last element.
LEMMA FrontOfSeq ==
    ASSUME NEW S, NEW s \in Seq(S), Len(s) # 0
    PROVE  /\ Front(s) \in Seq(S) /\ Len(Front(s)) = Len(s) - 1
           /\ \A j \in 1 .. Len(s) - 1 : Front(s)[j] = s[j]
<1> DEFINE n == Len(s)
           a == SubSeq(s, 1, n - 1)
<1>0. n \in Nat /\ \A i \in 1 .. n : s[i] \in S
  BY LenProperties, ElementOfSeq
<1>1. \A i \in 1 .. n - 1 : s[i] \in S BY <1>0
<1>2. 1 \in Int /\ n - 1 \in Int BY <1>0
<1>3. /\ a \in Seq(S) /\ Len(a) = IF 1 <= n - 1 THEN n - 1 - 1 + 1 ELSE 0
      /\ \A i \in 1 .. n - 1 - 1 + 1 : a[i] = s[1 + i - 1]
  BY <1>1, <1>2, SubSeqProperties
<1>4. \A i \in 1 .. n - 1 : i \in 1 .. n - 1 - 1 + 1 /\ 1 + i - 1 = i BY <1>0
<1>5. Front(s) = a BY DEF Front
<1> HIDE DEF a
<1> QED BY <1>0, <1>3, <1>4, <1>5

-----------------------------------------------------------------------------
(* Order in a view.                                                        *)

\* Better is a strict order of the prices.
LEMMA BetterIsOrder ==
    ASSUME NEW side \in Sides
    PROVE  /\ \A p \in Int : ~Better(side, p, p)
           /\ \A p, q, r \in Int : Better(side, p, q) /\ Better(side, q, r) => Better(side, p, r)
           /\ \A p, q \in Int : p = q \/ Better(side, p, q) \/ Better(side, q, p)
           /\ \A p, q \in Int : Better(side, p, q) => ~Better(side, q, p)
  BY DEF Sides, Better

\* The prices and quantities of a view.
LEMMA LevelsOfView ==
    ASSUME NEW view \in Seq(Level)
    PROVE  /\ Len(view) \in Nat /\ DOMAIN view = 1 .. Len(view)
           /\ \A i \in 1 .. Len(view) :
                 /\ view[i] \in Level /\ PriceOf(view[i]) \in Int /\ QtyOf(view[i]) \in Nat
                 /\ view[i] = <<PriceOf(view[i]), QtyOf(view[i])>>
<1>1. \A i \in 1 .. Len(view) : view[i] \in Level BY ElementOfSeq
<1> QED BY <1>1, LenProperties DEF Level, PriceOf, QtyOf

\* In an ordered view, what is before the rank of a price is better than the price,
\* and nothing else is.
LEMMA RankSplitsView ==
    ASSUME NEW side \in Sides, NEW view \in Seq(Level), Ordered(side, view), NEW price \in Int
    PROVE  /\ Rank(side, view, price) \in 1 .. Len(view) + 1
           /\ \A i \in 1 .. Len(view) :
                 i < Rank(side, view, price) <=> Better(side, PriceOf(view[i]), price)
<1> DEFINE n == Len(view)
           B == {i \in 1 .. n : Better(side, PriceOf(view[i]), price)}
<1>0. /\ n \in Nat /\ DOMAIN view = 1 .. n /\ \A i \in 1 .. n : PriceOf(view[i]) \in Int
  BY LevelsOfView
<1>1. Rank(side, view, price) = 1 + Cardinality(B) BY <1>0 DEF Rank
<1>2. CASE B = {}
  <2>1. Cardinality(B) = 0 BY <1>2, FS_EmptySet
  <2>2. \A i \in 1 .. n : ~Better(side, PriceOf(view[i]), price) BY <1>2
  <2> HIDE DEF B
  <2> QED BY <1>0, <1>1, <2>1, <2>2
<1>3. CASE B # {}
  <2> DEFINE m == Max(B)
  <2>1. m \in B /\ \A i \in B : i <= m
    <3>1. B \subseteq 1 .. n OBVIOUS
    <3> HIDE DEF B
    <3> QED BY <1>0, <1>3, <3>1, MaxOfInterval
  <2> HIDE DEF m
  <2>2. m \in 1 .. n /\ Better(side, PriceOf(view[m]), price) BY <2>1
  <2>3. ASSUME NEW i \in 1 .. n, i < m PROVE Better(side, PriceOf(view[i]), price)
    <3>1. Better(side, PriceOf(view[i]), PriceOf(view[m])) BY <1>0, <2>2, <2>3 DEF Ordered
    <3> QED BY <1>0, <2>2, <3>1, BetterIsOrder
  <2>4. B = 1 .. m
    <3>1. ASSUME NEW i \in B PROVE i \in 1 .. m BY <1>0, <2>1, <2>2, <3>1
    <3>2. ASSUME NEW i \in 1 .. m PROVE i \in B
      <4>1. i \in 1 .. n BY <1>0, <2>2
      <4>2. CASE i = m BY <2>1, <4>2
      <4>3. CASE i # m
        <5>1. i < m BY <2>2, <4>3
        <5> QED BY <2>3, <4>1, <5>1
      <4> QED BY <4>2, <4>3
    <3> HIDE DEF B
    <3> QED BY <3>1, <3>2
  <2>5. Cardinality(B) = m
    <3>1. 1 \in Int /\ m \in Int /\ ~(1 > m) BY <1>0, <2>2
    <3>2. Cardinality(1 .. m) = m - 1 + 1 BY <3>1, FS_Interval
    <3> HIDE DEF B
    <3> QED BY <2>4, <3>1, <3>2
  <2>6. \A i \in 1 .. n : i \in B <=> Better(side, PriceOf(view[i]), price) OBVIOUS
  <2> HIDE DEF B
  <2> QED BY <1>0, <1>1, <2>2, <2>4, <2>5, <2>6
<1> QED BY <1>2, <1>3

\* A price in an ordered view is at its rank, and nowhere else.
LEMMA RankFindsPrice ==
    ASSUME NEW side \in Sides, NEW view \in Seq(Level), Ordered(side, view), NEW price \in Int
    PROVE  /\ InView(view, price) => /\ Rank(side, view, price) \in 1 .. Len(view)
                                     /\ PriceOf(view[Rank(side, view, price)]) = price
           /\ \A i \in 1 .. Len(view) : PriceOf(view[i]) = price => i = Rank(side, view, price)
           /\ \A i \in 1 .. Len(view) :
                 i > Rank(side, view, price) => Better(side, price, PriceOf(view[i]))
           /\ ~InView(view, price) => \A i \in 1 .. Len(view) :
                 i >= Rank(side, view, price) => Better(side, price, PriceOf(view[i]))
<1> DEFINE n == Len(view)
           k == Rank(side, view, price)
<1>0. /\ n \in Nat /\ DOMAIN view = 1 .. n /\ \A i \in 1 .. n : PriceOf(view[i]) \in Int
  BY LevelsOfView
<1>1. k \in 1 .. n + 1 /\ \A i \in 1 .. n : i < k <=> Better(side, PriceOf(view[i]), price)
  BY RankSplitsView
<1> HIDE DEF k
<1>2. ASSUME NEW i \in 1 .. n, PriceOf(view[i]) = price PROVE i = k
  <2>1. ~(i < k) BY <1>1, <1>2, BetterIsOrder
  <2>2. ~(k < i)
    <3> SUFFICES ASSUME k < i PROVE FALSE
      OBVIOUS
    <3>1. k \in 1 .. n BY <1>0, <1>1
    <3>2. Better(side, PriceOf(view[k]), price) BY <1>0, <1>2, <3>1 DEF Ordered
    <3> QED BY <1>1, <3>1, <3>2
  <2> QED BY <1>0, <1>1, <2>1, <2>2
<1>3. ASSUME NEW i \in 1 .. n, i >= k, PriceOf(view[i]) # price
      PROVE  Better(side, price, PriceOf(view[i]))
  <2>1. ~(i < k) BY <1>0, <1>1, <1>3
  <2>2. ~Better(side, PriceOf(view[i]), price) BY <1>1, <2>1
  <2> QED BY <1>0, <1>3, <2>2, BetterIsOrder
<1>4. ASSUME NEW i \in 1 .. n, i > k PROVE Better(side, price, PriceOf(view[i]))
  <2>1. PriceOf(view[i]) # price BY <1>0, <1>1, <1>2, <1>4
  <2>2. i >= k BY <1>0, <1>1, <1>4
  <2> QED BY <1>3, <2>1, <2>2
<1>5. InView(view, price) <=> \E i \in 1 .. n : PriceOf(view[i]) = price
  BY <1>0 DEF InView
<1>6. InView(view, price) => k \in 1 .. n /\ PriceOf(view[k]) = price BY <1>2, <1>5
<1>7. ~InView(view, price) => \A i \in 1 .. n : i >= k => Better(side, price, PriceOf(view[i]))
  BY <1>3, <1>5
<1> QED BY <1>2, <1>4, <1>6, <1>7 DEF k

-----------------------------------------------------------------------------
(* What the ladder answers.                                                *)

\* The active prices are integers, with positive quantities.
LEMMA LevelsAreInt ==
    ASSUME NEW l, LadderInvariant(l)
    PROVE  \A p \in DOMAIN Levels(l) : p \in Int /\ Levels(l)[p] \in Nat \ {0}
<1>1. /\ DOMAIN Levels(l) = {toPrice(l, i) : i \in ActiveSlots(l.qtys)}
      /\ \A i \in ActiveSlots(l.qtys) : Levels(l)[toPrice(l, i)] = l.qtys[i]
  BY LevelsOfLadder
<1>2. l.basePrice \in Int /\ l.qtys \in [Slots -> Nat] BY DEF LadderInvariant, LadderType
<1>3. \A i \in ActiveSlots(l.qtys) : i \in Int /\ l.qtys[i] \in Nat \ {0}
  BY <1>2, SizeIsPositive DEF ActiveSlots, Slots
<1>4. \A i \in Int : toPrice(l, i) \in Int BY <1>2, PricesOfSlots
<1> QED BY <1>1, <1>3, <1>4

\* get() finds every active price, and nothing but quantities.
LEMMA GetOfLevel ==
    ASSUME NEW l, LadderInvariant(l)
    PROVE  /\ \A p \in Int : get(l, p) \in Nat
           /\ \A p \in DOMAIN Levels(l) : get(l, p) = Levels(l)[p]
<1>0. l.basePrice \in Int /\ l.qtys \in [Slots -> Nat] BY DEF LadderInvariant, LadderType
<1>1. ASSUME NEW p \in Int PROVE get(l, p) \in Nat
  <2>1. CASE inRange(l, p)
    <3>1. p - l.basePrice \in Nat /\ toIdx(l, p) < Size BY <1>0, <2>1 DEF inRange
    <3>2. toIdx(l, p) \in Slots
      BY <3>1, QuotientOfNatural, LadderAssumption, SizeIsPositive DEF toIdx, Slots
    <3> QED BY <1>0, <2>1, <3>2 DEF get
  <2>2. CASE ~inRange(l, p) BY <2>2 DEF get
  <2> QED BY <2>1, <2>2
<1>2. ASSUME NEW p \in DOMAIN Levels(l) PROVE get(l, p) = Levels(l)[p]
  <2>1. PICK i \in ActiveSlots(l.qtys) : p = toPrice(l, i)
    <3>1. DOMAIN Levels(l) = {toPrice(l, i) : i \in ActiveSlots(l.qtys)} BY LevelsOfLadder
    <3> QED BY <3>1
  <2>2. i \in Int /\ 0 <= i /\ i < Size BY SizeIsPositive DEF ActiveSlots, Slots
  <2>3. toIdx(l, p) = i /\ p \in Int BY <1>0, <2>1, <2>2, PricesOfSlots
  <2>4. p >= l.basePrice
    <3>1. TickSize \in Nat \ {0} BY LadderAssumption
    <3>2. i * TickSize >= 0 /\ i * TickSize \in Int BY <2>2, <3>1
    <3> QED BY <1>0, <2>1, <3>2 DEF toPrice
  <2>5. l.initialized BY <2>1 DEF LadderInvariant, BlankUntilCentred
  <2>6. inRange(l, p) BY <2>2, <2>3, <2>4, <2>5 DEF inRange
  <2>7. Levels(l)[p] = l.qtys[i] BY <2>1, LevelsOfLadder
  <2> QED BY <2>3, <2>6, <2>7 DEF get
<1> QED BY <1>1, <1>2

\* On the grid it finds nothing else.
LEMMA GetOfNoLevel ==
    ASSUME NEW l, OnGridLadder(l), NEW p, OnGrid(p), p \notin DOMAIN Levels(l)
    PROVE  get(l, p) = 0
<1>0. LadderInvariant(l) /\ l.qtys \in [Slots -> Nat]
  BY DEF OnGridLadder, LadderInvariant, LadderType
<1>1. CASE inRange(l, p)
  <2>1. toIdx(l, p) \in Slots /\ toPrice(l, toIdx(l, p)) = p
    BY <1>1, InRangeIsCovered DEF OnGridLadder, inRange
  <2>2. DOMAIN Levels(l) = {toPrice(l, i) : i \in ActiveSlots(l.qtys)} BY <1>0, LevelsOfLadder
  <2>3. toIdx(l, p) \notin ActiveSlots(l.qtys) BY <2>1, <2>2
  <2>4. l.qtys[toIdx(l, p)] = 0 BY <1>0, <2>1, <2>3 DEF ActiveSlots
  <2> QED BY <1>1, <2>4 DEF get
<1>2. CASE ~inRange(l, p) BY <1>2 DEF get
<1> QED BY <1>1, <1>2

\* A non-empty set of active prices has a highest and a lowest member.
LEMMA ExtremaOfPrices ==
    ASSUME NEW l, LadderInvariant(l), NEW R, R \subseteq DOMAIN Levels(l), R # {}
    PROVE  /\ Max(R) \in R /\ \A r \in R : Max(R) >= r
           /\ Min(R) \in R /\ \A r \in R : Min(R) <= r
<1> DEFINE I == {i \in ActiveSlots(l.qtys) : toPrice(l, i) \in R}
<1>0. l.basePrice \in Int BY DEF LadderInvariant, LadderType
<1>1. DOMAIN Levels(l) = {toPrice(l, i) : i \in ActiveSlots(l.qtys)} BY LevelsOfLadder
<1>2. \A r \in R : \E i \in I : r = toPrice(l, i) BY <1>1
<1>3. I \subseteq Slots /\ I # {} BY <1>2 DEF ActiveSlots
<1>4. \A i \in I : toPrice(l, i) \in R /\ i \in Int BY <1>3, SizeIsPositive DEF Slots
<1> HIDE DEF I
<1>5. R \subseteq Int BY LevelsAreInt
<1>6. Max(I) \in I /\ \A i \in I : Max(I) >= i BY <1>3, MaxOfSlots
<1>7. Min(I) \in I /\ \A i \in I : Min(I) =< i BY <1>3, MinOfSlots
<1>8. ASSUME NEW i \in Int, NEW j \in Int, i <= j PROVE toPrice(l, i) <= toPrice(l, j)
  <2>1. ~(j < i) BY <1>8
  <2>2. ~(toPrice(l, j) < toPrice(l, i)) BY <1>0, <2>1, PricesOfSlots
  <2>3. toPrice(l, i) \in Int /\ toPrice(l, j) \in Int BY <1>0, PricesOfSlots
  <2> QED BY <2>2, <2>3
<1>9. ASSUME NEW r \in R PROVE toPrice(l, Min(I)) <= r /\ r <= toPrice(l, Max(I))
  <2>1. PICK i \in I : r = toPrice(l, i) BY <1>2
  <2>2. i \in Int /\ Min(I) \in Int /\ Max(I) \in Int BY <1>4, <1>6, <1>7
  <2>3. Min(I) <= i /\ i <= Max(I) BY <1>6, <1>7, <2>2
  <2> QED BY <1>8, <2>1, <2>2, <2>3
<1>10. toPrice(l, Max(I)) \in R /\ toPrice(l, Min(I)) \in R BY <1>4, <1>6, <1>7
<1>11. Max(R) = toPrice(l, Max(I)) /\ Min(R) = toPrice(l, Min(I))
  BY <1>5, <1>9, <1>10, ExtremaOfIntegers
<1>12. \A r \in R : Max(R) >= r
  <2> SUFFICES ASSUME NEW r \in R PROVE Max(R) >= r
    OBVIOUS
  <2>1. r <= Max(R) BY <1>9, <1>11
  <2>2. r \in Int /\ Max(R) \in Int BY <1>5, <1>10, <1>11
  <2> QED BY <2>1, <2>2
<1> QED BY <1>9, <1>10, <1>11, <1>12

\* The levels of a ladder that come after all of a view.
Beyonds(side, l, view) ==
    {p \in DOMAIN Levels(l) : \A i \in 1 .. Len(view) : Better(side, PriceOf(view[i]), p)}

\* The next level after an ordered view is the best of those, or there is none.
LEMMA NextBeyondIsBest ==
    ASSUME NEW side \in Sides, NEW l, LadderInvariant(l),
           NEW view \in Seq(Level), Ordered(side, view)
    PROVE  LET p == NextBeyond(side, l, view)
               R == Beyonds(side, l, view)
           IN  \/ R = {} /\ p = NoPrice
               \/ p \in R /\ \A r \in R : r = p \/ Better(side, p, r)
<1> DEFINE D == DOMAIN Levels(l)
           n == Len(view)
           p == NextBeyond(side, l, view)
           R == Beyonds(side, l, view)
<1>0. /\ n \in Nat /\ DOMAIN view = 1 .. n /\ \A i \in 1 .. n : PriceOf(view[i]) \in Int
  BY LevelsOfView
<1>7. \A i \in 1 .. n : i = n \/ i < n
  <2> HIDE DEF n
  <2> QED BY <1>0
<1>1. D \subseteq Int /\ R \subseteq D BY LevelsAreInt DEF Beyonds
<1>2. ASSUME side = "bid" PROVE p = HighestOf(R)
  <2>1. CASE view = << >>
    <3>1. n = 0 BY <2>1
    <3>2. R = D BY <3>1, SMTT(60) DEF Beyonds
    <3> QED BY <1>2, <2>1, <3>2, BestIsExtremum DEF NextBeyond, Best
  <2>2. CASE view # << >>
    <3>1. n \in 1 .. n
      <4>1. n \in Nat \ {0} BY <2>2, EmptySeq
      <4> QED BY <4>1
    <3> DEFINE w == PriceOf(view[n])
    <3>2. w \in Int BY <1>0, <3>1
    <3>3. R = {r \in D : r < w}
      <4>1. ASSUME NEW r \in D PROVE r \in R <=> r < w
        <5>1. r \in R => Better(side, w, r) BY <3>1 DEF Beyonds
        <5>2. ASSUME Better(side, w, r), NEW i \in 1 .. n
              PROVE  Better(side, PriceOf(view[i]), r)
          <6>1. CASE i = n BY <5>2, <6>1
          <6>2. CASE i # n
            <7>1. i < n BY <1>7, <6>2
            <7>2. Better(side, PriceOf(view[i]), w) BY <1>0, <3>1, <7>1 DEF Ordered
            <7>3. r \in Int BY <1>1
            <7> QED BY <1>0, <3>2, <5>2, <7>2, <7>3, BetterIsOrder
          <6> QED BY <6>1, <6>2
        <5>3. Better(side, w, r) => r \in R BY <5>2 DEF Beyonds
        <5>4. r \in Int BY <1>1
        <5>5. Better(side, w, r) <=> r < w BY <1>2, <3>2, <5>4 DEF Better
        <5> QED BY <5>1, <5>3, <5>5
      <4> QED BY <1>1, <4>1
    <3>4. p = prevBelow(l, w) BY <1>2, <2>2 DEF NextBeyond, Beyond, Last
    <3> HIDE DEF w, R, p
    <3> QED BY <3>2, <3>3, <3>4, PrevBelowIsHighest
  <2> QED BY <2>1, <2>2
<1>3. ASSUME side = "ask" PROVE p = LowestOf(R)
  <2>1. CASE view = << >>
    <3>1. n = 0 BY <2>1
    <3>2. R = D BY <3>1, SMTT(60) DEF Beyonds
    <3> QED BY <1>3, <2>1, <3>2, BestIsExtremum DEF NextBeyond, Best
  <2>2. CASE view # << >>
    <3>1. n \in 1 .. n
      <4>1. n \in Nat \ {0} BY <2>2, EmptySeq
      <4> QED BY <4>1
    <3> DEFINE w == PriceOf(view[n])
    <3>2. w \in Int BY <1>0, <3>1
    <3>3. R = {r \in D : r > w}
      <4>1. ASSUME NEW r \in D PROVE r \in R <=> r > w
        <5>1. r \in R => Better(side, w, r) BY <3>1 DEF Beyonds
        <5>2. ASSUME Better(side, w, r), NEW i \in 1 .. n
              PROVE  Better(side, PriceOf(view[i]), r)
          <6>1. CASE i = n BY <5>2, <6>1
          <6>2. CASE i # n
            <7>1. i < n BY <1>7, <6>2
            <7>2. Better(side, PriceOf(view[i]), w) BY <1>0, <3>1, <7>1 DEF Ordered
            <7>3. r \in Int BY <1>1
            <7> QED BY <1>0, <3>2, <5>2, <7>2, <7>3, BetterIsOrder
          <6> QED BY <6>1, <6>2
        <5>3. Better(side, w, r) => r \in R BY <5>2 DEF Beyonds
        <5>4. r \in Int BY <1>1
        <5>5. Better(side, w, r) <=> r > w BY <1>3, <3>2, <5>4 DEF Better
        <5> QED BY <5>1, <5>3, <5>5
      <4> QED BY <1>1, <4>1
    <3>4. p = nextAbove(l, w) BY <1>3, <2>2 DEF NextBeyond, Beyond, Last
    <3> HIDE DEF w, R, p
    <3> QED BY <3>2, <3>3, <3>4, NextAboveIsLowest
  <2> QED BY <2>1, <2>2
<1>4. \A r \in R : r \in Int BY <1>1
<1>5. CASE R = {}
  <2>1. p = NoPrice BY <1>2, <1>3, <1>5 DEF Sides, HighestOf, LowestOf
  <2> QED BY <1>5, <2>1
<1>6. CASE R # {}
  <2>1. p \in R /\ \A r \in R : r = p \/ Better(side, p, r)
    <3>1. CASE side = "bid"
      <4>1. Max(R) \in R /\ \A r \in R : Max(R) >= r BY <1>1, <1>6, ExtremaOfPrices
      <4>2. p = Max(R) BY <1>2, <1>6, <3>1 DEF HighestOf
      <4> QED BY <1>4, <3>1, <4>1, <4>2 DEF Better
    <3>2. CASE side = "ask"
      <4>1. Min(R) \in R /\ \A r \in R : Min(R) <= r BY <1>1, <1>6, ExtremaOfPrices
      <4>2. p = Min(R) BY <1>3, <1>6, <3>2 DEF LowestOf
      <4> QED BY <1>4, <3>2, <4>1, <4>2 DEF Better
    <3> QED BY <3>1, <3>2 DEF Sides
  <2> QED BY <2>1
<1> QED BY <1>5, <1>6

-----------------------------------------------------------------------------
(* Views as ordered sets of levels.                                        *)

\* TopOf, read off the set of levels of an ordered view.
LEMMA TopOfSet ==
    ASSUME NEW side, NEW L, NEW view \in Seq(Level), NEW d
    PROVE  TopOf(side, L, view, d) <=>
              /\ Len(view) <= d /\ Ordered(side, view)
              /\ \A e \in ToSet(view) : PriceOf(e) \in DOMAIN L /\ QtyOf(e) = L[PriceOf(e)]
              /\ \A p \in DOMAIN L :
                    \/ \E e \in ToSet(view) : PriceOf(e) = p
                    \/ Len(view) = d /\ \A e \in ToSet(view) : Better(side, PriceOf(e), p)
<1> DEFINE E == ToSet(view)
<1>1. \A e \in E : \E i \in DOMAIN view : e = view[i] BY DEF ToSet
<1>2. \A i \in DOMAIN view : view[i] \in E BY DEF ToSet
<1> HIDE DEF E
<1>3. (\A i \in DOMAIN view : PriceOf(view[i]) \in DOMAIN L
                              /\ QtyOf(view[i]) = L[PriceOf(view[i])])
        <=> (\A e \in E : PriceOf(e) \in DOMAIN L /\ QtyOf(e) = L[PriceOf(e)])
  BY <1>1, <1>2
<1>4. \A p : InView(view, p) <=> \E e \in E : PriceOf(e) = p
  BY <1>1, <1>2 DEF InView
<1>5. \A p : (\A i \in DOMAIN view : Better(side, PriceOf(view[i]), p))
                <=> (\A e \in E : Better(side, PriceOf(e), p))
  BY <1>1, <1>2
<1> QED BY <1>3, <1>4, <1>5 DEF TopOf, Ordered, E

\* The levels of a view are levels.
LEMMA SetOfView ==
    ASSUME NEW view \in Seq(Level)
    PROVE  /\ ToSet(view) = {view[i] : i \in 1 .. Len(view)}
           /\ \A e \in ToSet(view) : e \in Level /\ PriceOf(e) \in Int /\ QtyOf(e) \in Nat
           /\ \A p : InView(view, p) <=> \E e \in ToSet(view) : PriceOf(e) = p
  BY LevelsOfView DEF ToSet, InView

\* Taking a price out of a view that has it.
LEMMA RemoveFromView ==
    ASSUME NEW side \in Sides, NEW view \in Seq(Level), Ordered(side, view),
           NEW price \in Int, InView(view, price)
    PROVE  LET rest == RemoveAt(view, Rank(side, view, price))
           IN  /\ rest \in Seq(Level) /\ Len(rest) = Len(view) - 1 /\ Ordered(side, rest)
               /\ ToSet(rest) = {e \in ToSet(view) : PriceOf(e) # price}
<1> DEFINE n == Len(view)
           k == Rank(side, view, price)
           rest == RemoveAt(view, k)
<1>0. /\ n \in Nat /\ DOMAIN view = 1 .. n
  BY LevelsOfView
<1>1. /\ k \in 1 .. n /\ PriceOf(view[k]) = price
      /\ \A i \in 1 .. n : PriceOf(view[i]) = price => i = k
  BY RankFindsPrice
<1> HIDE DEF k
<1>2. /\ rest \in Seq(Level) /\ Len(rest) = n - 1
      /\ \A j \in 1 .. n - 1 : rest[j] = IF j < k THEN view[j] ELSE view[j + 1]
  BY <1>1, RemoveAtProperties
<1>3. DOMAIN rest = 1 .. n - 1 BY <1>2, LenProperties
<1> HIDE DEF rest, n
<1> DEFINE old(j) == IF j < k THEN j ELSE j + 1
<1>4. \A j \in 1 .. n - 1 : old(j) \in 1 .. n /\ old(j) # k /\ rest[j] = view[old(j)]
  BY <1>0, <1>1, <1>2
<1>5. \A i, j \in 1 .. n - 1 : i < j => old(i) < old(j) BY <1>0, <1>1
<1>6. \A i \in 1 .. n : i # k => \E j \in 1 .. n - 1 : old(j) = i
  <2> SUFFICES ASSUME NEW i \in 1 .. n, i # k PROVE \E j \in 1 .. n - 1 : old(j) = i
    OBVIOUS
  <2>1. CASE i < k
    <3>1. i \in 1 .. n - 1 /\ old(i) = i BY <1>0, <1>1, <2>1
    <3> QED BY <3>1
  <2>2. CASE ~(i < k)
    <3>1. i - 1 \in 1 .. n - 1 /\ old(i - 1) = i BY <1>0, <1>1, <2>2
    <3> QED BY <3>1
  <2> QED BY <2>1, <2>2
<1> HIDE DEF old
<1>7. Ordered(side, rest)
  <2> SUFFICES ASSUME NEW i \in 1 .. n - 1, NEW j \in 1 .. n - 1, i < j
               PROVE  Better(side, PriceOf(rest[i]), PriceOf(rest[j]))
    BY <1>3 DEF Ordered
  <2> QED BY <1>0, <1>4, <1>5 DEF Ordered
<1>8. ToSet(rest) = {e \in ToSet(view) : PriceOf(e) # price}
  <2>1. ASSUME NEW j \in 1 .. n - 1
        PROVE  rest[j] \in {e \in ToSet(view) : PriceOf(e) # price}
    BY <1>0, <1>1, <1>4 DEF ToSet
  <2>2. ASSUME NEW e \in ToSet(view), PriceOf(e) # price PROVE e \in ToSet(rest)
    <3>1. PICK i \in 1 .. n : e = view[i] BY <1>0 DEF ToSet
    <3>2. i # k BY <1>1, <2>2, <3>1
    <3>3. PICK j \in 1 .. n - 1 : old(j) = i BY <1>6, <3>2
    <3>4. e = rest[j] BY <1>4, <3>1, <3>3
    <3> QED BY <1>3, <3>4 DEF ToSet
  <2> QED BY <1>3, <2>1, <2>2 DEF ToSet
<1> QED BY <1>2, <1>7, <1>8 DEF rest, k, n

\* Putting a new price into a view.
LEMMA InsertIntoOrdered ==
    ASSUME NEW side \in Sides, NEW view \in Seq(Level), Ordered(side, view),
           NEW price \in Int, NEW qty \in Nat, ~InView(view, price)
    PROVE  LET wider == InsertAt(view, Rank(side, view, price), <<price, qty>>)
           IN  /\ wider \in Seq(Level) /\ Len(wider) = Len(view) + 1 /\ Ordered(side, wider)
               /\ ToSet(wider) = ToSet(view) \cup {<<price, qty>>}
<1> DEFINE n == Len(view)
           k == Rank(side, view, price)
           new == <<price, qty>>
           wider == InsertAt(view, k, new)
<1>0. /\ n \in Nat /\ DOMAIN view = 1 .. n /\ new \in Level /\ PriceOf(new) = price
  BY LevelsOfView DEF Level, PriceOf
<1>1. /\ k \in 1 .. n + 1
      /\ \A i \in 1 .. n : i < k <=> Better(side, PriceOf(view[i]), price)
      /\ \A i \in 1 .. n : i >= k => Better(side, price, PriceOf(view[i]))
  BY RankSplitsView, RankFindsPrice
<1> HIDE DEF k, new
<1>2. /\ wider \in Seq(Level) /\ Len(wider) = n + 1
      /\ \A j \in 1 .. n + 1 :
            wider[j] = IF j < k THEN view[j] ELSE IF j = k THEN new ELSE view[j - 1]
  <2>1. k \in 1 .. Len(view) + 1 BY <1>1
  <2>2. Inserted(wider, view, k, new, Level) BY <1>0, <2>1, InsertAtProperties
  <2> HIDE DEF wider
  <2> QED BY <2>2 DEF Inserted
<1>3. DOMAIN wider = 1 .. n + 1 BY <1>2, LenProperties
<1> HIDE DEF wider, n
<1>4. Ordered(side, wider)
  <2> SUFFICES ASSUME NEW i \in 1 .. n + 1, NEW j \in 1 .. n + 1, i < j
               PROVE  Better(side, PriceOf(wider[i]), PriceOf(wider[j]))
    BY <1>3 DEF Ordered
  <2>1. CASE j < k
    <3>1. i < k /\ i \in 1 .. n /\ j \in 1 .. n BY <1>0, <1>1, <2>1
    <3> QED BY <1>0, <1>2, <2>1, <3>1 DEF Ordered
  <2>2. CASE j = k
    <3>1. i < k /\ i \in 1 .. n BY <1>0, <1>1, <2>2
    <3>2. wider[i] = view[i] /\ wider[j] = new BY <1>2, <2>2, <3>1
    <3> QED BY <1>0, <1>1, <3>1, <3>2
  <2>3. CASE j > k /\ i < k
    <3>1. i \in 1 .. n /\ j - 1 \in 1 .. n /\ i < j - 1 BY <1>0, <1>1, <2>3
    <3>2. wider[i] = view[i] /\ wider[j] = view[j - 1] BY <1>0, <1>1, <1>2, <2>3
    <3> QED BY <1>0, <3>1, <3>2 DEF Ordered
  <2>4. CASE j > k /\ i = k
    <3>1. j - 1 \in 1 .. n /\ j - 1 >= k BY <1>0, <1>1, <2>4
    <3>2. wider[i] = new /\ wider[j] = view[j - 1] BY <1>0, <1>1, <1>2, <2>4
    <3> QED BY <1>0, <1>1, <3>1, <3>2
  <2>5. CASE j > k /\ i > k
    <3>1. i - 1 \in 1 .. n /\ j - 1 \in 1 .. n /\ i - 1 < j - 1 BY <1>0, <1>1, <2>5
    <3>2. wider[i] = view[i - 1] /\ wider[j] = view[j - 1] BY <1>0, <1>1, <1>2, <2>5
    <3> QED BY <1>0, <3>1, <3>2 DEF Ordered
  <2> QED BY <1>0, <1>1, <2>1, <2>2, <2>3, <2>4, <2>5
<1>5. ToSet(wider) = ToSet(view) \cup {new}
  <2>1. ASSUME NEW j \in 1 .. n + 1 PROVE wider[j] \in ToSet(view) \cup {new}
    <3>1. CASE j < k
      <4>1. j \in 1 .. n BY <1>0, <1>1, <3>1
      <4> QED BY <1>0, <1>2, <3>1, <4>1 DEF ToSet
    <3>2. CASE j = k BY <1>2, <3>2
    <3>3. CASE j > k
      <4>1. j - 1 \in 1 .. n /\ wider[j] = view[j - 1] BY <1>0, <1>1, <1>2, <3>3
      <4> QED BY <1>0, <4>1 DEF ToSet
    <3> QED BY <1>0, <1>1, <3>1, <3>2, <3>3
  <2>2. ASSUME NEW i \in 1 .. n PROVE view[i] \in ToSet(wider)
    <3>1. CASE i < k
      <4>1. i \in 1 .. n + 1 /\ wider[i] = view[i] BY <1>0, <1>2, <3>1
      <4> QED BY <1>3, <4>1 DEF ToSet
    <3>2. CASE ~(i < k)
      <4>1. i + 1 \in 1 .. n + 1 /\ ~(i + 1 < k) /\ i + 1 # k /\ (i + 1) - 1 = i
        BY <1>0, <1>1, <3>2
      <4>2. wider[i + 1] = view[i] BY <1>2, <4>1
      <4> QED BY <1>3, <4>1, <4>2 DEF ToSet
    <3> QED BY <3>1, <3>2
  <2>3. new \in ToSet(wider)
    <3>1. wider[k] = new BY <1>0, <1>1, <1>2
    <3> QED BY <1>1, <1>3, <3>1 DEF ToSet
  <2> QED BY <1>0, <1>3, <2>1, <2>2, <2>3 DEF ToSet
<1> QED BY <1>2, <1>4, <1>5 DEF wider, k, n, new

\* Changing the quantity of a price in a view.
LEMMA AmendView ==
    ASSUME NEW side \in Sides, NEW view \in Seq(Level), Ordered(side, view),
           NEW price \in Int, NEW qty \in Nat, InView(view, price)
    PROVE  LET amended == ReplaceAt(view, Rank(side, view, price), <<price, qty>>)
           IN  /\ amended \in Seq(Level) /\ Len(amended) = Len(view) /\ Ordered(side, amended)
               /\ ToSet(amended) = {e \in ToSet(view) : PriceOf(e) # price}
                                      \cup {<<price, qty>>}
<1> DEFINE n == Len(view)
           k == Rank(side, view, price)
           new == <<price, qty>>
           amended == ReplaceAt(view, k, new)
<1>0. /\ n \in Nat /\ DOMAIN view = 1 .. n /\ new \in Level /\ PriceOf(new) = price
  BY LevelsOfView DEF Level, PriceOf
<1>1. /\ k \in 1 .. n /\ PriceOf(view[k]) = price
      /\ \A i \in 1 .. n : PriceOf(view[i]) = price => i = k
  BY RankFindsPrice
<1> HIDE DEF k, new
<1>2. /\ amended \in Seq(Level) /\ Len(amended) = n
      /\ \A j \in 1 .. n : amended[j] = IF j = k THEN new ELSE view[j]
  BY <1>0, <1>1, ExceptSeq DEF ReplaceAt
<1>3. DOMAIN amended = 1 .. n BY <1>2, LenProperties
<1> HIDE DEF amended, n
<1>4. \A j \in 1 .. n : PriceOf(amended[j]) = PriceOf(view[j]) BY <1>0, <1>1, <1>2
<1>5. Ordered(side, amended) BY <1>0, <1>3, <1>4 DEF Ordered
<1>6. ToSet(amended) = {e \in ToSet(view) : PriceOf(e) # price} \cup {new}
  <2>1. ASSUME NEW j \in 1 .. n
        PROVE  amended[j] \in {e \in ToSet(view) : PriceOf(e) # price} \cup {new}
    BY <1>0, <1>1, <1>2 DEF ToSet
  <2>2. ASSUME NEW e \in ToSet(view), PriceOf(e) # price PROVE e \in ToSet(amended)
    <3>1. PICK i \in 1 .. n : e = view[i] BY <1>0 DEF ToSet
    <3>2. i # k BY <1>1, <2>2, <3>1
    <3>3. amended[i] = e BY <1>2, <3>1, <3>2
    <3> QED BY <1>3, <3>3 DEF ToSet
  <2>3. new \in ToSet(amended)
    <3>1. amended[k] = new BY <1>1, <1>2
    <3> QED BY <1>1, <1>3, <3>1 DEF ToSet
  <2> QED BY <1>3, <2>1, <2>2, <2>3 DEF ToSet
<1> QED BY <1>2, <1>5, <1>6 DEF amended, k, n, new

\* Dropping the worst level.
LEMMA FrontOfView ==
    ASSUME NEW side \in Sides, NEW view \in Seq(Level), Ordered(side, view), Len(view) # 0
    PROVE  /\ Front(view) \in Seq(Level) /\ Len(Front(view)) = Len(view) - 1
           /\ Ordered(side, Front(view))
           /\ Last(view) \in Level
           /\ ToSet(view) = ToSet(Front(view)) \cup {Last(view)}
           /\ \A e \in ToSet(Front(view)) : Better(side, PriceOf(e), PriceOf(Last(view)))
<1> DEFINE n == Len(view)
           f == Front(view)
<1>0. n \in Nat /\ n # 0 /\ DOMAIN view = 1 .. n /\ \A i \in 1 .. n : view[i] \in Level
  BY LevelsOfView
<1>1. f \in Seq(Level) /\ Len(f) = n - 1 /\ \A j \in 1 .. n - 1 : f[j] = view[j]
  BY FrontOfSeq
<1>2. DOMAIN f = 1 .. n - 1 BY <1>1, LenProperties
<1>3. Last(view) = view[n] BY DEF Last
<1> HIDE DEF n, f
<1>4. n \in 1 .. n /\ \A j \in 1 .. n - 1 : j \in 1 .. n /\ j < n BY <1>0
<1>5. Ordered(side, f) BY <1>0, <1>1, <1>2, <1>4 DEF Ordered
<1>6. \A e \in ToSet(f) : Better(side, PriceOf(e), PriceOf(view[n]))
  BY <1>0, <1>1, <1>2, <1>4 DEF Ordered, ToSet
<1>7. \A i \in 1 .. n : i = n \/ i \in 1 .. n - 1 BY <1>0
<1>8. ToSet(view) = ToSet(f) \cup {view[n]}
  <2>1. ASSUME NEW i \in 1 .. n PROVE view[i] \in ToSet(f) \cup {view[n]}
    BY <1>1, <1>2, <1>7 DEF ToSet
  <2>2. ASSUME NEW j \in 1 .. n - 1 PROVE f[j] \in ToSet(view)
    BY <1>0, <1>1, <1>4 DEF ToSet
  <2>3. view[n] \in ToSet(view) BY <1>0, <1>4 DEF ToSet
  <2> QED BY <1>0, <1>2, <2>1, <2>2, <2>3 DEF ToSet
<1> QED BY <1>0, <1>1, <1>3, <1>4, <1>5, <1>6, <1>8 DEF n, f

\* Adding a level that is worse than all of a view.
LEMMA AppendToView ==
    ASSUME NEW side \in Sides, NEW view \in Seq(Level), Ordered(side, view), NEW new \in Level,
           \A e \in ToSet(view) : Better(side, PriceOf(e), PriceOf(new))
    PROVE  /\ Append(view, new) \in Seq(Level) /\ Len(Append(view, new)) = Len(view) + 1
           /\ Ordered(side, Append(view, new))
           /\ ToSet(Append(view, new)) = ToSet(view) \cup {new}
<1> DEFINE n == Len(view)
           a == Append(view, new)
<1>0. n \in Nat /\ DOMAIN view = 1 .. n BY LevelsOfView
<1>1. /\ a \in Seq(Level) /\ Len(a) = n + 1 /\ a[n + 1] = new
      /\ \A i \in 1 .. n : a[i] = view[i]
  BY AppendProperties
<1>2. DOMAIN a = 1 .. n + 1 BY <1>1, LenProperties
<1> HIDE DEF n, a
<1>3. \A i \in 1 .. n + 1 : i = n + 1 \/ i \in 1 .. n BY <1>0
<1>4. Ordered(side, a)
  <2> SUFFICES ASSUME NEW i \in 1 .. n + 1, NEW j \in 1 .. n + 1, i < j
               PROVE  Better(side, PriceOf(a[i]), PriceOf(a[j]))
    BY <1>2 DEF Ordered
  <2>1. i \in 1 .. n BY <1>0
  <2>2. CASE j = n + 1
    <3>1. view[i] \in ToSet(view) BY <1>0, <2>1 DEF ToSet
    <3> QED BY <1>1, <2>1, <2>2, <3>1
  <2>3. CASE j \in 1 .. n BY <1>0, <1>1, <2>1, <2>3 DEF Ordered
  <2> QED BY <1>3, <2>2, <2>3
<1>5. ToSet(a) = ToSet(view) \cup {new}
  <2>1. ASSUME NEW i \in 1 .. n + 1 PROVE a[i] \in ToSet(view) \cup {new}
    BY <1>0, <1>1, <1>3 DEF ToSet
  <2>2. ASSUME NEW i \in 1 .. n PROVE view[i] \in ToSet(a)
    <3>1. i \in 1 .. n + 1 BY <1>0
    <3> QED BY <1>1, <1>2, <3>1 DEF ToSet
  <2>3. new \in ToSet(a)
    <3>1. n + 1 \in 1 .. n + 1 BY <1>0
    <3> QED BY <1>1, <1>2, <3>1 DEF ToSet
  <2> QED BY <1>0, <1>2, <2>1, <2>2, <2>3 DEF ToSet
<1> QED BY <1>1, <1>4, <1>5 DEF a, n

-----------------------------------------------------------------------------
(* The walk along the ladder.                                              *)

\* The prices a side can hold are positive.
PositiveLevels(l) == DOMAIN Levels(l) \subseteq Nat \ {0}

\* What comes next, in terms of the set of levels of the view.
LEMMA NextBeyondSet ==
    ASSUME NEW side \in Sides, NEW l, LadderInvariant(l),
           NEW view \in Seq(Level), Ordered(side, view)
    PROVE  LET p == NextBeyond(side, l, view)
               R == {r \in DOMAIN Levels(l) :
                        \A e \in ToSet(view) : Better(side, PriceOf(e), r)}
           IN  \/ R = {} /\ p = NoPrice
               \/ p \in R /\ \A r \in R : r = p \/ Better(side, p, r)
<1> DEFINE R == {r \in DOMAIN Levels(l) : \A e \in ToSet(view) : Better(side, PriceOf(e), r)}
           p == NextBeyond(side, l, view)
<1>1. ToSet(view) = {view[i] : i \in 1 .. Len(view)} BY SetOfView
<1>2. R = Beyonds(side, l, view) BY <1>1 DEF Beyonds
<1>3. \/ Beyonds(side, l, view) = {} /\ p = NoPrice
      \/ /\ p \in Beyonds(side, l, view)
         /\ \A r \in Beyonds(side, l, view) : r = p \/ Better(side, p, r)
  BY NextBeyondIsBest
<1> HIDE DEF R, p
<1>4. \/ R = {} /\ p = NoPrice
      \/ p \in R /\ \A r \in R : r = p \/ Better(side, p, r)
  BY <1>2, <1>3
<1> QED BY <1>4 DEF R, p

\* The next level, if there is one, continues an ordered view.
LEMMA AppendNext ==
    ASSUME NEW side \in Sides, NEW l, LadderInvariant(l),
           NEW view \in Seq(Level), Ordered(side, view), NEW p, p = NextBeyond(side, l, view),
           p # NoPrice, NEW new, new = <<p, get(l, p)>>
    PROVE  /\ p \in DOMAIN Levels(l) /\ \A e \in ToSet(view) : Better(side, PriceOf(e), p)
           /\ \A r \in DOMAIN Levels(l) :
                 (\A e \in ToSet(view) : Better(side, PriceOf(e), r))
                    => r = p \/ Better(side, p, r)
           /\ new \in Level /\ PriceOf(new) = p /\ QtyOf(new) = Levels(l)[p]
           /\ Append(view, new) \in Seq(Level) /\ Len(Append(view, new)) = Len(view) + 1
           /\ Ordered(side, Append(view, new))
           /\ ToSet(Append(view, new)) = ToSet(view) \cup {new}
<1>1. /\ p \in DOMAIN Levels(l) /\ \A e \in ToSet(view) : Better(side, PriceOf(e), p)
      /\ \A r \in DOMAIN Levels(l) :
            (\A e \in ToSet(view) : Better(side, PriceOf(e), r)) => r = p \/ Better(side, p, r)
  BY NextBeyondSet
<1>2. p \in Int /\ get(l, p) \in Nat /\ get(l, p) = Levels(l)[p]
  BY <1>1, LevelsAreInt, GetOfLevel
<1>3. new \in Level /\ PriceOf(new) = p /\ QtyOf(new) = Levels(l)[p]
  BY <1>2 DEF Level, PriceOf, QtyOf
<1>4. /\ Append(view, new) \in Seq(Level) /\ Len(Append(view, new)) = Len(view) + 1
      /\ Ordered(side, Append(view, new))
      /\ ToSet(Append(view, new)) = ToSet(view) \cup {new}
  BY <1>1, <1>3, AppendToView
<1> QED BY <1>1, <1>3, <1>4

\* It makes the top of the book one level longer.
LEMMA TopOfAppend ==
    ASSUME NEW side \in Sides, NEW l, LadderInvariant(l),
           NEW view \in Seq(Level), NEW k \in Nat, TopOf(side, Levels(l), view, k),
           NEW p, p = NextBeyond(side, l, view), p # NoPrice,
           NEW new, new = <<p, get(l, p)>>
    PROVE  Len(view) = k /\ TopOf(side, Levels(l), Append(view, new), k + 1)
<1> DEFINE L == Levels(l)
           E == ToSet(view)
           a == Append(view, new)
<1>1. /\ Len(view) <= k /\ Ordered(side, view)
      /\ \A e \in E : PriceOf(e) \in DOMAIN L /\ QtyOf(e) = L[PriceOf(e)]
      /\ \A q \in DOMAIN L :
            \/ \E e \in E : PriceOf(e) = q
            \/ Len(view) = k /\ \A e \in E : Better(side, PriceOf(e), q)
  BY TopOfSet
<1>2. /\ p \in DOMAIN L /\ \A e \in E : Better(side, PriceOf(e), p)
      /\ \A r \in DOMAIN L :
            (\A e \in E : Better(side, PriceOf(e), r)) => r = p \/ Better(side, p, r)
      /\ new \in Level /\ PriceOf(new) = p /\ QtyOf(new) = L[p]
      /\ a \in Seq(Level) /\ Len(a) = Len(view) + 1 /\ Ordered(side, a)
      /\ ToSet(a) = E \cup {new}
  BY <1>1, AppendNext
<1>3. \A e \in E : PriceOf(e) \in Int BY SetOfView
<1> HIDE DEF L, E, a
<1>4. Len(view) = k
  <2>1. \A e \in E : PriceOf(e) # p BY <1>2, <1>3, BetterIsOrder
  <2> QED BY <1>1, <1>2, <2>1
<1>5. \A e \in ToSet(a) : PriceOf(e) \in DOMAIN L /\ QtyOf(e) = L[PriceOf(e)]
  BY <1>1, <1>2
<1>6. ASSUME NEW q \in DOMAIN L
      PROVE  \/ \E e \in ToSet(a) : PriceOf(e) = q
             \/ Len(a) = k + 1 /\ \A e \in ToSet(a) : Better(side, PriceOf(e), q)
  <2>1. CASE \E e \in E : PriceOf(e) = q BY <1>2, <2>1
  <2>2. CASE \A e \in E : Better(side, PriceOf(e), q)
    <3>1. q = p \/ Better(side, p, q) BY <1>2, <2>2
    <3> QED BY <1>2, <1>4, <2>2, <3>1
  <2> QED BY <1>1, <2>1, <2>2
<1>7. Len(a) <= k + 1 BY <1>2, <1>4
<1>8. TopOf(side, L, a, k + 1) BY <1>2, <1>5, <1>6, <1>7, TopOfSet
<1> QED BY <1>4, <1>8 DEF L, a

\* When there is none the view holds the whole side, and is the top of any depth.
LEMMA TopOfAll ==
    ASSUME NEW side \in Sides, NEW l, LadderInvariant(l), PositiveLevels(l),
           NEW view \in Seq(Level), NEW k \in Nat, TopOf(side, Levels(l), view, k),
           ~(NextBeyond(side, l, view) > 0), NEW n \in Nat, Len(view) <= n
    PROVE  TopOf(side, Levels(l), view, n)
<1> DEFINE L == Levels(l)
           E == ToSet(view)
           p == NextBeyond(side, l, view)
           R == {r \in DOMAIN L : \A e \in E : Better(side, PriceOf(e), r)}
<1>1. /\ Len(view) <= k /\ Ordered(side, view)
      /\ \A e \in E : PriceOf(e) \in DOMAIN L /\ QtyOf(e) = L[PriceOf(e)]
      /\ \A q \in DOMAIN L :
            \/ \E e \in E : PriceOf(e) = q
            \/ Len(view) = k /\ \A e \in E : Better(side, PriceOf(e), q)
  BY TopOfSet
<1>2. R = {}
  <2>1. R = {} \/ p \in R BY <1>1, NextBeyondSet
  <2>2. p \in DOMAIN L => p > 0 BY DEF PositiveLevels
  <2> QED BY <2>1, <2>2
<1>3. \A q \in DOMAIN L : \E e \in E : PriceOf(e) = q BY <1>1, <1>2
<1> HIDE DEF L, E
<1>4. TopOf(side, L, view, n) BY <1>1, <1>3, TopOfSet DEF E
<1> QED BY <1>4 DEF L

\* Of an empty side the empty view is the top.
LEMMA TopOfNothing ==
    ASSUME NEW side, NEW L, NEW d \in Nat, DOMAIN L = {} \/ d = 0
    PROVE  TopOf(side, L, << >>, d)
<1>1. << >> \in Seq(Level) /\ Len(<< >>) = 0 BY EmptySeq
<1>2. DOMAIN << >> = {} OBVIOUS
<1> QED BY <1>1, <1>2 DEF TopOf, InView

\* A view rebuilt from the ladder is in order and, with positive prices, the top.
LEMMA RebuildIsTop ==
    ASSUME NEW side \in Sides, NEW l, LadderInvariant(l)
    PROVE  /\ rebuildOfiSide(side, l) \in Seq(Level)
           /\ Ordered(side, rebuildOfiSide(side, l))
           /\ Len(rebuildOfiSide(side, l)) <= OfiDepth
           /\ PositiveLevels(l) => TopOf(side, Levels(l), rebuildOfiSide(side, l), OfiDepth)
<1> DEFINE n == OfiDepth
           X == {v \in Seq(Level) : Ordered(side, v)}
           base == << >>
           Step == [v \in X |-> Walked(side, l, v)]
           Body(F) == [m \in 0 .. n |-> IF m = 0 THEN << >> ELSE Walked(side, l, F[m - 1])]
           Chosen == CHOOSE F : F = Body(F)
<1>0. n \in Nat BY OrderBookAssumption
<1>1. rebuildOfiSide(side, l) = Chosen[n] BY DEF rebuildOfiSide
<1>2. << >> \in X
  <2>1. << >> \in Seq(Level) BY EmptySeq
  <2>2. DOMAIN << >> = {} OBVIOUS
  <2> QED BY <2>1, <2>2 DEF Ordered
<1>3. ASSUME NEW v \in X
      PROVE  /\ Walked(side, l, v) \in X /\ Len(Walked(side, l, v)) <= Len(v) + 1
             /\ \A k \in Nat : PositiveLevels(l) /\ TopOf(side, Levels(l), v, k)
                                  => TopOf(side, Levels(l), Walked(side, l, v), k + 1)
  <2> DEFINE p == NextBeyond(side, l, v)
             new == <<p, get(l, p)>>
  <2>0. v \in Seq(Level) /\ Ordered(side, v) /\ Len(v) \in Nat BY <1>3, LenProperties
  <2>1. CASE p > 0
    <3>1. Walked(side, l, v) = Append(v, new) BY <2>1 DEF Walked
    <3>2. p # NoPrice
      <4> HIDE DEF p
      <4> QED BY <2>1 DEF NoPrice
    <3>3. /\ Append(v, new) \in Seq(Level) /\ Len(Append(v, new)) = Len(v) + 1
          /\ Ordered(side, Append(v, new))
      BY <2>0, <3>2, AppendNext
    <3>4. \A k \in Nat : TopOf(side, Levels(l), v, k)
                            => TopOf(side, Levels(l), Append(v, new), k + 1)
      BY <2>0, <3>2, TopOfAppend
    <3> HIDE DEF new
    <3> QED BY <2>0, <3>1, <3>3, <3>4
  <2>2. CASE ~(p > 0)
    <3>1. Walked(side, l, v) = v BY <2>2 DEF Walked
    <3>2. ASSUME NEW k \in Nat, PositiveLevels(l), TopOf(side, Levels(l), v, k)
          PROVE  TopOf(side, Levels(l), v, k + 1)
      <4>1. Len(v) <= k BY <2>0, <3>2, TopOfSet
      <4>2. k + 1 \in Nat /\ Len(v) <= k + 1 BY <2>0, <4>1
      <4> QED BY <2>0, <2>2, <3>2, <4>2, TopOfAll
    <3> QED BY <2>0, <3>1, <3>2
  <2> QED BY <2>1, <2>2
<1>4. Step \in [X -> X] BY <1>3
<1>5. PICK F \in [0 .. n -> X] :
        F = [m \in 0 .. n |-> IF m = 0 THEN << >> ELSE Step[F[m - 1]]]
  <2>1. base \in X BY <1>2
  <2> HIDE DEF Step, X, n, base
  <2>2. \E F \in [0 .. n -> X] : F = [m \in 0 .. n |-> IF m = 0 THEN base ELSE Step[F[m - 1]]]
    BY <1>0, <2>1, <1>4, RecursionExists
  <2> QED BY <2>2 DEF base
<1>6. F = Body(F)
  <2>1. \A m \in 0 .. n : m # 0 => Step[F[m - 1]] = Walked(side, l, F[m - 1])
    <3> SUFFICES ASSUME NEW m \in 0 .. n, m # 0
                 PROVE  Step[F[m - 1]] = Walked(side, l, F[m - 1])
      OBVIOUS
    <3>1. m - 1 \in 0 .. n BY <1>0
    <3>2. F[m - 1] \in X BY <1>5, <3>1
    <3> HIDE DEF X
    <3> QED BY <3>2
  <2> HIDE DEF Step, X
  <2> QED BY <1>5, <2>1
<1>7. Chosen = Body(Chosen)
  <2> HIDE DEF Body
  <2> QED BY <1>6
<1> HIDE DEF Chosen
<1>8. \A m \in 0 .. n : Chosen[m] = IF m = 0 THEN << >> ELSE Walked(side, l, Chosen[m - 1])
  <2> DEFINE rhs(m) == IF m = 0 THEN << >> ELSE Walked(side, l, Chosen[m - 1])
  <2>1. Chosen = [m \in 0 .. n |-> rhs(m)] BY <1>7
  <2> HIDE DEF rhs
  <2>2. \A m \in 0 .. n : Chosen[m] = rhs(m) BY <2>1
  <2> QED BY <2>2 DEF rhs
<1> DEFINE OK(m) == /\ Chosen[m] \in X /\ Len(Chosen[m]) <= m
                    /\ PositiveLevels(l) => TopOf(side, Levels(l), Chosen[m], m)
           T == {m \in 0 .. n : OK(m)}
<1>9. OK(0)
  <2>1. 0 \in 0 .. n BY <1>0
  <2>2. Chosen[0] = << >> BY <1>8, <2>1
  <2>3. Len(<< >>) <= 0 /\ TopOf(side, Levels(l), << >>, 0)
    BY TopOfNothing, EmptySeq
  <2> HIDE DEF X
  <2> QED BY <1>2, <2>2, <2>3
<1>10. ASSUME NEW m \in 0 .. n, OK(m), m < n PROVE OK(m + 1)
  <2>1. m + 1 \in 0 .. n /\ m + 1 # 0 /\ (m + 1) - 1 = m /\ m \in Nat BY <1>0, <1>10
  <2>2. Chosen[m + 1] = Walked(side, l, Chosen[m]) BY <1>8, <2>1
  <2>3. Chosen[m] \in X /\ Len(Chosen[m]) <= m BY <1>10
  <2>4. Walked(side, l, Chosen[m]) \in X BY <1>3, <2>3
  <2>5. Len(Walked(side, l, Chosen[m])) <= m + 1
    <3>1. Len(Chosen[m]) \in Nat /\ Len(Walked(side, l, Chosen[m])) \in Nat
      BY <2>3, <2>4, LenProperties
    <3>2. Len(Walked(side, l, Chosen[m])) <= Len(Chosen[m]) + 1 BY <1>3, <2>3
    <3> HIDE DEF X
    <3> QED BY <2>1, <2>3, <3>1, <3>2
  <2>6. PositiveLevels(l) => TopOf(side, Levels(l), Walked(side, l, Chosen[m]), m + 1)
    BY <1>3, <1>10, <2>1, <2>3
  <2> HIDE DEF X
  <2> QED BY <2>2, <2>4, <2>5, <2>6
<1>11. 0 .. n \subseteq T
  <2>1. 0 \in T
    <3> HIDE DEF OK
    <3> QED BY <1>0, <1>9
  <2>2. ASSUME NEW m \in 0 .. n, m \in T, m < n PROVE m + 1 \in T
    <3> HIDE DEF OK
    <3> QED BY <1>0, <1>10, <2>2
  <2> HIDE DEF T
  <2> QED BY <1>0, <2>1, <2>2, InductionUpTo
<1>12. OK(n)
  <2> HIDE DEF OK
  <2> QED BY <1>0, <1>11
<1> QED BY <1>1, <1>12

-----------------------------------------------------------------------------
(* A level change and the view.                                            *)

\* The levels L are L0 with the quantity q at price p; 0 is no level.
Follows(L, L0, p, q) ==
    /\ DOMAIN L = IF q = 0 THEN DOMAIN L0 \ {p} ELSE DOMAIN L0 \cup {p}
    /\ \A r \in DOMAIN L0 : r # p => L[r] = L0[r]
    /\ q # 0 => L[p] = q

\* What erasing does to the list: shape only.
LEMMA EraseKeepsView ==
    ASSUME NEW side \in Sides, NEW l, LadderInvariant(l), NEW view \in Seq(Level),
           Ordered(side, view), Len(view) <= OfiDepth, NEW price \in Int, InView(view, price)
    PROVE  LET c == EraseFromView(side, l, view, price)
           IN  /\ c.view \in Seq(Level) /\ Ordered(side, c.view) /\ Len(c.view) <= OfiDepth
               /\ c.evicted \in Level /\ c.replacement \in Level
<1> DEFINE n == OfiDepth
           rest == RemoveAt(view, Rank(side, view, price))
           p == NextBeyond(side, l, rest)
           new == <<p, get(l, p)>>
           newView == IF p # NoPrice THEN Append(rest, new) ELSE rest
           c == EraseFromView(side, l, view, price)
<1>0. n \in Nat \ {0} /\ Len(view) \in Nat /\ NoLevel \in Level
  BY OrderBookAssumption, LenProperties DEF NoLevel, NoPrice, Level
<1>1. rest \in Seq(Level) /\ Len(rest) = Len(view) - 1 /\ Ordered(side, rest)
  BY RemoveFromView
<1> HIDE DEF rest, n
<1>2. /\ newView \in Seq(Level) /\ Ordered(side, newView)
      /\ Len(newView) \in {Len(view) - 1, Len(view)}
  <2>1. CASE p # NoPrice
    <3>1. newView = Append(rest, new) BY <2>1
    <3>2. /\ Append(rest, new) \in Seq(Level) /\ Len(Append(rest, new)) = Len(rest) + 1
          /\ Ordered(side, Append(rest, new))
      BY <1>1, <2>1, AppendNext
    <3> HIDE DEF new, newView
    <3> QED BY <1>0, <1>1, <3>1, <3>2
  <2>2. CASE p = NoPrice
    <3>1. newView = rest BY <2>2
    <3> HIDE DEF newView
    <3> QED BY <1>1, <3>1
  <2> QED BY <2>1, <2>2
<1>3. /\ c.view = newView /\ c.evicted = NoLevel
      /\ c.replacement \in {NoLevel, Last(newView)}
      /\ Len(newView) # n => c.replacement = NoLevel
  BY DEF EraseFromView, rest, n
<1> HIDE DEF newView, c
<1>4. Len(newView) = n => Last(newView) \in Level
  <2> SUFFICES ASSUME Len(newView) = n PROVE Last(newView) \in Level
    OBVIOUS
  <2>1. n \in 1 .. n BY <1>0
  <2>2. newView[n] \in Level BY <1>2, <2>1, ElementOfSeq
  <2> QED BY <2>2 DEF Last
<1>5. Len(newView) <= n
  <2>1. Len(newView) \in Nat /\ Len(view) <= n BY <1>2, LenProperties DEF n
  <2> QED BY <1>0, <1>2, <2>1
<1> QED BY <1>0, <1>2, <1>3, <1>4, <1>5 DEF c, n

\* What inserting does to the list: shape only.
LEMMA InsertKeepsView ==
    ASSUME NEW side \in Sides, NEW view \in Seq(Level),
           Ordered(side, view), Len(view) <= OfiDepth, NEW price \in Int, NEW qty \in Nat,
           ~InView(view, price)
    PROVE  LET c == InsertIntoView(side, view, price, qty)
           IN  /\ c.view \in Seq(Level) /\ Ordered(side, c.view) /\ Len(c.view) <= OfiDepth
               /\ c.evicted \in Level /\ c.replacement \in Level
<1> DEFINE n == OfiDepth
           wider == InsertAt(view, Rank(side, view, price), <<price, qty>>)
           c == InsertIntoView(side, view, price, qty)
<1>0. n \in Nat \ {0} /\ Len(view) \in Nat /\ NoLevel \in Level
  BY OrderBookAssumption, LenProperties DEF NoLevel, NoPrice, Level
<1>1. wider \in Seq(Level) /\ Len(wider) = Len(view) + 1 /\ Ordered(side, wider)
  BY InsertIntoOrdered
<1> HIDE DEF wider
<1>2. /\ Front(wider) \in Seq(Level) /\ Len(Front(wider)) = Len(view)
      /\ Ordered(side, Front(wider)) /\ Last(wider) \in Level
  <2>1. Len(wider) # 0 /\ Len(wider) - 1 = Len(view) BY <1>0, <1>1
  <2> QED BY <1>1, <2>1, FrontOfView
<1>3. CASE Len(wider) > n
  <2>1. c.view = Front(wider) /\ c.evicted = Last(wider) /\ c.replacement = NoLevel
    BY <1>3 DEF InsertIntoView, wider
  <2> HIDE DEF c
  <2> QED BY <1>0, <1>2, <2>1 DEF c
<1>4. CASE ~(Len(wider) > n)
  <2>1. c.view = wider /\ c.evicted = NoLevel /\ c.replacement = NoLevel
    BY <1>4 DEF InsertIntoView, wider
  <2>2. Len(wider) <= n BY <1>0, <1>1, <1>4
  <2> HIDE DEF c
  <2> QED BY <1>0, <1>1, <2>1, <2>2 DEF c
<1> QED BY <1>3, <1>4

\* A level change keeps a view a bounded list in order, whatever the ladder holds.
LEMMA UpdateKeepsView ==
    ASSUME NEW side \in Sides, NEW l, LadderInvariant(l), NEW view \in Seq(Level),
           Ordered(side, view), Len(view) <= OfiDepth, NEW price \in Int, NEW qty \in Nat
    PROVE  LET c == updateOfiView(side, l, view, price, qty)
           IN  /\ c.view \in Seq(Level) /\ Ordered(side, c.view) /\ Len(c.view) <= OfiDepth
               /\ c.evicted \in Level /\ c.replacement \in Level
<1> DEFINE c == updateOfiView(side, l, view, price, qty)
           amended == ReplaceAt(view, Rank(side, view, price), <<price, qty>>)
           OK(r) == /\ r.view \in Seq(Level) /\ Ordered(side, r.view) /\ Len(r.view) <= OfiDepth
                    /\ r.evicted \in Level /\ r.replacement \in Level
<1>0. NoLevel \in Level BY DEF NoLevel, NoPrice, Level
<1>1. CASE InView(view, price) /\ qty = 0
  <2>1. c = EraseFromView(side, l, view, price) BY <1>1 DEF updateOfiView
  <2>2. OK(EraseFromView(side, l, view, price)) BY <1>1, EraseKeepsView
  <2> HIDE DEF c, OK
  <2>3. OK(c) BY <2>1, <2>2
  <2> QED BY <2>3 DEF c, OK
<1>2. CASE InView(view, price) /\ qty > 0
  <2>1. c.view = amended /\ c.evicted = NoLevel /\ c.replacement = NoLevel
    <3>1. qty # 0 BY <1>2
    <3>2. c = [view |-> amended, evicted |-> NoLevel, replacement |-> NoLevel]
      BY <1>2, <3>1 DEF updateOfiView
    <3> HIDE DEF c
    <3> QED BY <3>2
  <2>2. amended \in Seq(Level) /\ Len(amended) = Len(view) /\ Ordered(side, amended)
    BY <1>2, AmendView
  <2> HIDE DEF c, amended
  <2> QED BY <1>0, <2>1, <2>2 DEF c
<1>3. CASE ~InView(view, price) /\ c = InsertIntoView(side, view, price, qty)
  <2>2. OK(InsertIntoView(side, view, price, qty)) BY <1>3, InsertKeepsView
  <2> HIDE DEF c, OK
  <2>3. OK(c) BY <1>3, <2>2
  <2> QED BY <2>3 DEF c, OK
<1>4. CASE c = [view |-> view, evicted |-> NoLevel, replacement |-> NoLevel]
  <2>1. c.view = view /\ c.evicted = NoLevel /\ c.replacement = NoLevel
    <3> HIDE DEF c
    <3> QED BY <1>4
  <2> HIDE DEF c
  <2> QED BY <1>0, <2>1 DEF c
<1>5. ~InView(view, price) =>
        \/ c = InsertIntoView(side, view, price, qty)
        \/ c = [view |-> view, evicted |-> NoLevel, replacement |-> NoLevel]
  BY DEF updateOfiView
<1>6. qty = 0 \/ qty > 0 OBVIOUS
<1> QED BY <1>1, <1>2, <1>3, <1>4, <1>5, <1>6

\* Erasing keeps the view the top of the levels.
LEMMA EraseKeepsTop ==
    ASSUME NEW side \in Sides, NEW l, LadderInvariant(l), PositiveLevels(l),
           NEW view \in Seq(Level), NEW L0, DOMAIN L0 \subseteq Int,
           TopOf(side, L0, view, OfiDepth), NEW price \in Int,
           Follows(Levels(l), L0, price, 0), InView(view, price)
    PROVE  TopOf(side, Levels(l), EraseFromView(side, l, view, price).view, OfiDepth)
<1> DEFINE n == OfiDepth
           L == Levels(l)
           E == ToSet(view)
           rest == RemoveAt(view, Rank(side, view, price))
           p == NextBeyond(side, l, rest)
           new == <<p, get(l, p)>>
           c == EraseFromView(side, l, view, price)
<1>0. n \in Nat \ {0} /\ Len(view) \in Nat /\ \A e \in E : PriceOf(e) \in Int
  BY OrderBookAssumption, LenProperties, SetOfView
<1>1. /\ Len(view) <= n /\ Ordered(side, view)
      /\ \A e \in E : PriceOf(e) \in DOMAIN L0 /\ QtyOf(e) = L0[PriceOf(e)]
      /\ \A q \in DOMAIN L0 :
            \/ \E e \in E : PriceOf(e) = q
            \/ Len(view) = n /\ \A e \in E : Better(side, PriceOf(e), q)
  BY TopOfSet
<1>2. /\ rest \in Seq(Level) /\ Len(rest) = Len(view) - 1 /\ Ordered(side, rest)
      /\ ToSet(rest) = {e \in E : PriceOf(e) # price}
  BY <1>1, RemoveFromView
<1>3. DOMAIN L = DOMAIN L0 \ {price} /\ \A r \in DOMAIN L : L[r] = L0[r]
  BY DEF Follows
<1>4. Len(rest) \in Nat /\ Len(rest) + 1 = Len(view) BY <1>0, <1>2, LenProperties
<1>5. c.view = IF p # NoPrice THEN Append(rest, new) ELSE rest
  BY DEF EraseFromView
<1> HIDE DEF n, L, rest, c, E
<1>6. TopOf(side, L, rest, Len(rest))
  <2>1. \A e \in ToSet(rest) : PriceOf(e) \in DOMAIN L /\ QtyOf(e) = L[PriceOf(e)]
    BY <1>1, <1>2, <1>3
  <2>2. ASSUME NEW q \in DOMAIN L
        PROVE  \/ \E e \in ToSet(rest) : PriceOf(e) = q
               \/ \A e \in ToSet(rest) : Better(side, PriceOf(e), q)
    BY <1>1, <1>2, <1>3
  <2>3. Len(rest) <= Len(rest) BY <1>4
  <2> QED BY <1>2, <2>1, <2>2, <2>3, TopOfSet
<1>7. CASE p # NoPrice
  <2>1. TopOf(side, L, Append(rest, new), Len(rest) + 1)
    <3>1. TopOf(side, Levels(l), rest, Len(rest)) BY <1>6 DEF L
    <3>2. TopOf(side, Levels(l), Append(rest, new), Len(rest) + 1)
      BY <1>2, <1>4, <1>7, <3>1, TopOfAppend
    <3> QED BY <3>2 DEF L
  <2>2. Len(view) = n
    <3>1. p \in DOMAIN L /\ \A e \in ToSet(rest) : Better(side, PriceOf(e), p)
      <4>1. /\ p \in DOMAIN Levels(l)
            /\ \A e \in ToSet(rest) : Better(side, PriceOf(e), p)
            /\ new \in Level
        BY <1>2, <1>7, AppendNext
      <4> HIDE DEF p
      <4> QED BY <4>1 DEF L
    <3>2. p \in DOMAIN L0 /\ p # price /\ p \in Int BY <1>3, <3>1
    <3>3. \A e \in E : PriceOf(e) # p
      <4> SUFFICES ASSUME NEW e \in E, PriceOf(e) = p PROVE FALSE
        OBVIOUS
      <4>1. e \in ToSet(rest) BY <1>2, <3>2
      <4> QED BY <3>1, <3>2, <4>1, BetterIsOrder
    <3> QED BY <1>1, <3>2, <3>3
  <2>3. c.view = Append(rest, new) BY <1>5, <1>7
  <2> HIDE DEF new
  <2>4. TopOf(side, L, c.view, n) BY <1>4, <2>1, <2>2, <2>3
  <2> QED BY <2>4 DEF n, L, c
<1>8. CASE p = NoPrice
  <2>1. ~(p > 0)
    <3> HIDE DEF p
    <3> QED BY <1>8 DEF NoPrice
  <2>2. Len(rest) <= n BY <1>0, <1>1, <1>4
  <2>3. TopOf(side, Levels(l), rest, Len(rest)) BY <1>6 DEF L
  <2>4. TopOf(side, Levels(l), rest, n) BY <1>0, <1>2, <1>4, <2>1, <2>2, <2>3, TopOfAll
  <2>5. c.view = rest BY <1>5, <1>8
  <2> QED BY <2>4, <2>5 DEF n, c
<1> QED BY <1>7, <1>8

\* So does changing a quantity.
LEMMA AmendKeepsTop ==
    ASSUME NEW side \in Sides, NEW view \in Seq(Level), NEW L, NEW L0, NEW d \in Nat,
           TopOf(side, L0, view, d), NEW price \in Int, NEW qty \in Nat \ {0},
           Follows(L, L0, price, qty), InView(view, price)
    PROVE  TopOf(side, L, ReplaceAt(view, Rank(side, view, price), <<price, qty>>), d)
<1> DEFINE E == ToSet(view)
           new == <<price, qty>>
           amended == ReplaceAt(view, Rank(side, view, price), new)
<1>1. /\ Len(view) <= d /\ Ordered(side, view)
      /\ \A e \in E : PriceOf(e) \in DOMAIN L0 /\ QtyOf(e) = L0[PriceOf(e)]
      /\ \A q \in DOMAIN L0 :
            \/ \E e \in E : PriceOf(e) = q
            \/ Len(view) = d /\ \A e \in E : Better(side, PriceOf(e), q)
  BY TopOfSet
<1>2. /\ amended \in Seq(Level) /\ Len(amended) = Len(view) /\ Ordered(side, amended)
      /\ ToSet(amended) = {e \in E : PriceOf(e) # price} \cup {new}
  BY <1>1, AmendView
<1>3. /\ DOMAIN L = DOMAIN L0 \cup {price} /\ L[price] = qty
      /\ \A r \in DOMAIN L0 : r # price => L[r] = L0[r]
  BY DEF Follows
<1>4. PriceOf(new) = price /\ QtyOf(new) = qty BY DEF PriceOf, QtyOf
<1>5. PICK old \in E : PriceOf(old) = price BY SetOfView
<1> HIDE DEF E, new, amended
<1>6. \A e \in ToSet(amended) : PriceOf(e) \in DOMAIN L /\ QtyOf(e) = L[PriceOf(e)]
  BY <1>1, <1>2, <1>3, <1>4
<1>7. ASSUME NEW q \in DOMAIN L
      PROVE  \/ \E e \in ToSet(amended) : PriceOf(e) = q
             \/ Len(amended) = d /\ \A e \in ToSet(amended) : Better(side, PriceOf(e), q)
  <2>1. CASE q = price BY <1>2, <1>4, <2>1
  <2>2. CASE q # price BY <1>1, <1>2, <1>3, <1>4, <1>5, <2>2
  <2> QED BY <2>1, <2>2
<1>8. TopOf(side, L, amended, d) BY <1>1, <1>2, <1>6, <1>7, TopOfSet
<1> QED BY <1>8 DEF amended, new

\* So does inserting a level that enters the view.
LEMMA InsertKeepsTop ==
    ASSUME NEW side \in Sides, NEW view \in Seq(Level), NEW L, NEW L0, DOMAIN L0 \subseteq Int,
           TopOf(side, L0, view, OfiDepth), NEW price \in Int, NEW qty \in Nat \ {0},
           Follows(L, L0, price, qty), ~InView(view, price),
           Len(view) < OfiDepth \/ Better(side, price, PriceOf(Last(view)))
    PROVE  TopOf(side, L, InsertIntoView(side, view, price, qty).view, OfiDepth)
<1> DEFINE n == OfiDepth
           E == ToSet(view)
           new == <<price, qty>>
           wider == InsertAt(view, Rank(side, view, price), new)
           c == InsertIntoView(side, view, price, qty)
<1>0. n \in Nat \ {0} /\ Len(view) \in Nat /\ \A e \in E : PriceOf(e) \in Int
  BY OrderBookAssumption, LenProperties, SetOfView
<1>1. /\ Len(view) <= n /\ Ordered(side, view)
      /\ \A e \in E : PriceOf(e) \in DOMAIN L0 /\ QtyOf(e) = L0[PriceOf(e)]
      /\ \A q \in DOMAIN L0 :
            \/ \E e \in E : PriceOf(e) = q
            \/ Len(view) = n /\ \A e \in E : Better(side, PriceOf(e), q)
  BY TopOfSet
<1>2. /\ wider \in Seq(Level) /\ Len(wider) = Len(view) + 1 /\ Ordered(side, wider)
      /\ ToSet(wider) = E \cup {new}
  BY <1>1, InsertIntoOrdered
<1>3. /\ DOMAIN L = DOMAIN L0 \cup {price} /\ L[price] = qty
      /\ \A r \in DOMAIN L0 : r # price => L[r] = L0[r]
  BY DEF Follows
<1>4. PriceOf(new) = price /\ QtyOf(new) = qty BY DEF PriceOf, QtyOf
<1>5. \A e \in E : PriceOf(e) # price BY SetOfView
<1>6. c.view = IF Len(wider) > n THEN Front(wider) ELSE wider BY DEF InsertIntoView
<1>7. \A q \in DOMAIN L0 : q \in Int OBVIOUS
<1>12. Len(view) # 0 => Last(view) \in E
  <2> SUFFICES ASSUME Len(view) # 0 PROVE Last(view) \in E
    OBVIOUS
  <2>1. ToSet(view) = ToSet(Front(view)) \cup {Last(view)} BY <1>1, FrontOfView
  <2> QED BY <2>1
<1> HIDE DEF n, E, new, wider, c
<1>8. \A e \in ToSet(wider) : PriceOf(e) \in DOMAIN L /\ QtyOf(e) = L[PriceOf(e)]
  BY <1>1, <1>2, <1>3, <1>4, <1>5
<1>9. CASE Len(wider) > n
  <2>1. Len(view) = n BY <1>0, <1>1, <1>2, <1>9
  <2>2. Len(wider) # 0 /\ Len(wider) - 1 = n BY <1>0, <1>2, <2>1
  <2>3. /\ Front(wider) \in Seq(Level) /\ Len(Front(wider)) = n /\ Ordered(side, Front(wider))
        /\ ToSet(wider) = ToSet(Front(wider)) \cup {Last(wider)}
        /\ \A e \in ToSet(Front(wider)) : Better(side, PriceOf(e), PriceOf(Last(wider)))
    BY <1>2, <2>2, FrontOfView
  <2>4. Last(view) \in E /\ Better(side, price, PriceOf(Last(view)))
    <3>1. ~(Len(view) < OfiDepth) /\ Len(view) # 0 BY <1>0, <2>1 DEF n
    <3> QED BY <1>12, <3>1
  <2>5. \A e \in ToSet(Front(wider)) : PriceOf(e) \in DOMAIN L /\ QtyOf(e) = L[PriceOf(e)]
    BY <1>8, <2>3
  <2>6. ASSUME NEW q \in DOMAIN L
        PROVE  \/ \E e \in ToSet(Front(wider)) : PriceOf(e) = q
               \/ \A e \in ToSet(Front(wider)) : Better(side, PriceOf(e), q)
    <3>1. CASE \E e \in ToSet(wider) : PriceOf(e) = q BY <2>3, <3>1
    <3>2. CASE q # price /\ \A e \in E : Better(side, PriceOf(e), q)
      <4>1. Better(side, price, q)
        <5>1. q \in Int BY <1>3, <1>7, <3>2
        <5>2. Better(side, PriceOf(Last(view)), q) /\ PriceOf(Last(view)) \in Int
          BY <1>0, <2>4, <3>2
        <5> QED BY <2>4, <5>1, <5>2, BetterIsOrder
      <4>2. \A e \in ToSet(wider) : Better(side, PriceOf(e), q) BY <1>2, <1>4, <3>2, <4>1
      <4> QED BY <2>3, <4>2
    <3>3. q = price => new \in ToSet(wider) BY <1>2
    <3> QED BY <1>1, <1>2, <1>3, <1>4, <3>1, <3>2, <3>3
  <2>7. n <= n BY <1>0
  <2>8. TopOf(side, L, Front(wider), n) BY <2>3, <2>5, <2>6, <2>7, TopOfSet
  <2>9. c.view = Front(wider) BY <1>6, <1>9
  <2> QED BY <2>8, <2>9 DEF c, n
<1>10. CASE ~(Len(wider) > n)
  <2>1. Len(view) # n /\ Len(wider) <= n BY <1>0, <1>1, <1>2, <1>10
  <2>2. \A q \in DOMAIN L : \E e \in ToSet(wider) : PriceOf(e) = q
    BY <1>1, <1>2, <1>3, <1>4, <2>1
  <2>3. TopOf(side, L, wider, n) BY <1>2, <1>8, <2>1, <2>2, TopOfSet
  <2>4. c.view = wider BY <1>6, <1>10
  <2> QED BY <2>3, <2>4 DEF c, n
<1> QED BY <1>9, <1>10

\* A change outside the view leaves it the top.
LEMMA NoUpdateKeepsTop ==
    ASSUME NEW side \in Sides, NEW view \in Seq(Level), NEW L, NEW L0, DOMAIN L0 \subseteq Int,
           TopOf(side, L0, view, OfiDepth), NEW price \in Int, NEW qty \in Nat,
           Follows(L, L0, price, qty), ~InView(view, price),
           qty = 0 \/ (~(Len(view) < OfiDepth) /\ ~Better(side, price, PriceOf(Last(view))))
    PROVE  TopOf(side, L, view, OfiDepth)
<1> DEFINE n == OfiDepth
           E == ToSet(view)
<1>0. n \in Nat \ {0} /\ Len(view) \in Nat /\ \A e \in E : PriceOf(e) \in Int
  BY OrderBookAssumption, LenProperties, SetOfView
<1>1. /\ Len(view) <= n /\ Ordered(side, view)
      /\ \A e \in E : PriceOf(e) \in DOMAIN L0 /\ QtyOf(e) = L0[PriceOf(e)]
      /\ \A q \in DOMAIN L0 :
            \/ \E e \in E : PriceOf(e) = q
            \/ Len(view) = n /\ \A e \in E : Better(side, PriceOf(e), q)
  BY TopOfSet
<1>2. /\ DOMAIN L = IF qty = 0 THEN DOMAIN L0 \ {price} ELSE DOMAIN L0 \cup {price}
      /\ \A r \in DOMAIN L0 : r # price => L[r] = L0[r]
  BY DEF Follows
<1>3. \A e \in E : PriceOf(e) # price BY SetOfView
<1>4. ASSUME qty # 0 PROVE Len(view) = n /\ \A e \in E : Better(side, PriceOf(e), price)
  <2>1. Len(view) = n /\ Len(view) # 0 BY <1>0, <1>1, <1>4
  <2>2. /\ ToSet(view) = ToSet(Front(view)) \cup {Last(view)}
        /\ \A e \in ToSet(Front(view)) : Better(side, PriceOf(e), PriceOf(Last(view)))
    BY <1>1, <2>1, FrontOfView
  <2> DEFINE w == PriceOf(Last(view))
  <2>3. w \in Int /\ w # price BY <1>0, <1>3, <2>2
  <2>4. ~Better(side, price, w) BY <1>4
  <2> HIDE DEF w, n
  <2>5. Better(side, w, price) BY <2>3, <2>4, BetterIsOrder
  <2>6. ASSUME NEW e \in E PROVE Better(side, PriceOf(e), price)
    <3>1. PriceOf(e) = w \/ Better(side, PriceOf(e), w) BY <2>2 DEF w
    <3>2. PriceOf(e) \in Int BY <1>0
    <3> HIDE DEF E
    <3> QED BY <2>3, <2>5, <3>1, <3>2, BetterIsOrder
  <2> QED BY <2>1, <2>6
<1> HIDE DEF n, E
<1>5. \A e \in E : PriceOf(e) \in DOMAIN L /\ QtyOf(e) = L[PriceOf(e)]
  BY <1>1, <1>2, <1>3
<1>6. \A q \in DOMAIN L :
         \/ \E e \in E : PriceOf(e) = q
         \/ Len(view) = n /\ \A e \in E : Better(side, PriceOf(e), q)
  BY <1>1, <1>2, <1>4
<1>7. TopOf(side, L, view, n) BY <1>1, <1>5, <1>6, TopOfSet DEF E
<1> QED BY <1>7 DEF n

\* The level change of a ladder, followed in the view that was its top, leaves a view
\* that is its top.
LEMMA UpdateKeepsTop ==
    ASSUME NEW side \in Sides, NEW l, LadderInvariant(l), PositiveLevels(l),
           NEW view \in Seq(Level), NEW L0, DOMAIN L0 \subseteq Int,
           TopOf(side, L0, view, OfiDepth), NEW price \in Int, NEW qty \in Nat,
           Follows(Levels(l), L0, price, qty)
    PROVE  TopOf(side, Levels(l), updateOfiView(side, l, view, price, qty).view, OfiDepth)
<1> DEFINE c == updateOfiView(side, l, view, price, qty)
           amended == ReplaceAt(view, Rank(side, view, price), <<price, qty>>)
           idle == [view |-> view, evicted |-> NoLevel, replacement |-> NoLevel]
           enters == \/ Len(view) < OfiDepth
                     \/ view # << >> /\ Better(side, price, PriceOf(Last(view)))
<1>0. OfiDepth \in Nat \ {0} BY OrderBookAssumption
<1>1. CASE InView(view, price) /\ qty = 0
  <2>1. c = EraseFromView(side, l, view, price) BY <1>1 DEF updateOfiView
  <2>2. Follows(Levels(l), L0, price, 0) BY <1>1
  <2>3. TopOf(side, Levels(l), EraseFromView(side, l, view, price).view, OfiDepth)
    BY <1>1, <2>2, EraseKeepsTop
  <2> QED BY <2>1, <2>3
<1>2. CASE InView(view, price) /\ qty > 0
  <2>0. qty # 0 BY <1>2
  <2>1. c = [view |-> amended, evicted |-> NoLevel, replacement |-> NoLevel]
    BY <1>2, <2>0 DEF updateOfiView
  <2>2. c.view = amended
    <3> HIDE DEF c
    <3> QED BY <2>1
  <2>3. TopOf(side, Levels(l), amended, OfiDepth) BY <1>0, <1>2, <2>0, AmendKeepsTop
  <2> HIDE DEF c, amended
  <2>4. TopOf(side, Levels(l), c.view, OfiDepth) BY <2>2, <2>3
  <2> QED BY <2>4 DEF c
<1>3. CASE ~InView(view, price) /\ qty > 0 /\ enters
  <2>0. qty # 0 BY <1>3
  <2>1. c = InsertIntoView(side, view, price, qty) BY <1>3 DEF updateOfiView
  <2>2. TopOf(side, Levels(l), InsertIntoView(side, view, price, qty).view, OfiDepth)
    BY <1>3, <2>0, InsertKeepsTop
  <2> QED BY <2>1, <2>2
<1>4. CASE ~InView(view, price) /\ ~(qty > 0 /\ enters)
  <2>1. c = idle BY <1>4 DEF updateOfiView
  <2>2. c.view = view
    <3> HIDE DEF c
    <3> QED BY <2>1
  <2>3. \/ qty = 0
        \/ ~(Len(view) < OfiDepth) /\ ~Better(side, price, PriceOf(Last(view)))
    <3>1. ~(Len(view) < OfiDepth) => view # << >>
      <4>1. view = << >> => Len(view) = 0 BY EmptySeq
      <4> QED BY <1>0, <4>1
    <3> QED BY <1>4, <3>1
  <2>4. TopOf(side, Levels(l), view, OfiDepth) BY <1>4, <2>3, NoUpdateKeepsTop
  <2> HIDE DEF c
  <2>5. TopOf(side, Levels(l), c.view, OfiDepth) BY <2>2, <2>4
  <2> QED BY <2>5 DEF c
<1>5. qty = 0 \/ qty > 0 OBVIOUS
<1> QED BY <1>1, <1>2, <1>3, <1>4, <1>5

-----------------------------------------------------------------------------
(* The ladder of a side.                                                   *)

\* Every price of a message is on the tick grid, as price_ladder.hpp:9 asks.
LevelsOnGrid(levels) == \A i \in DOMAIN levels : OnGrid(PriceOf(levels[i]))

BookOnGrid ==
    \A f \in Feeds : \A m \in Snapshots[f] \cup Updates[f] :
        LevelsOnGrid(m.bids) /\ LevelsOnGrid(m.asks)

\* What set() does to the levels, on the grid.
LEMMA LevelsAfterSet ==
    ASSUME NEW l, OnGridLadder(l), NEW p \in Nat \ {0}, OnGrid(p), NEW q \in Nat
    PROVE  LET new == set(l, p, q)
           IN  /\ OnGridLadder(new)
               /\ Follows(Levels(new), Levels(new), p, q)
               /\ ~Recenters(l, p) => Follows(Levels(new), Levels(l), p, q)
               /\ PositiveLevels(l) => PositiveLevels(new)
<1> DEFINE c == IF Centre(l) = 0 \/ ~Window!Covers(Centre(l), p) THEN p ELSE Centre(l)
           k == Kept(l, c)
           new == set(l, p, q)
           L0 == Levels(l)
           L == Levels(new)
<1>1. /\ OnGridLadder(new)
      /\ L = IF q = 0 THEN [r \in k \ {p} |-> L0[r]]
             ELSE [r \in k \cup {p} |-> IF r = p THEN q ELSE L0[r]]
  BY SetFollowsWindow, ZenonT(60)
<1>2. k \subseteq DOMAIN L0 BY DEF Kept
<1>3. LadderInvariant(l) /\ l.initialized \in BOOLEAN
  BY DEF OnGridLadder, LadderInvariant, LadderType
<1>4. ~Recenters(l, p) => k = DOMAIN L0
  <2> SUFFICES ASSUME ~Recenters(l, p) PROVE k = DOMAIN L0
    OBVIOUS
  <2>1. CASE ~l.initialized
    <3>1. DOMAIN L0 = {} BY <1>3, <2>1, NoBestNoLevel
    <3> QED BY <1>2, <3>1
  <2>2. CASE l.initialized
    <3>1. inRange(l, p) BY <2>2 DEF Recenters
    <3>2. Centre(l) # 0 /\ OnGrid(l.basePrice) BY <2>2 DEF OnGridLadder
    <3>3. Window!Covers(Centre(l), p) BY <2>2, <3>1, <3>2, InRangeIsCovered
    <3>4. c = Centre(l) BY <3>2, <3>3
    <3>5. Kept(l, Centre(l)) = DOMAIN L0 BY <2>2, OwnWindowKeepsAll
    <3> QED BY <3>4, <3>5
  <2> QED BY <1>3, <2>1, <2>2
<1> HIDE DEF c, k, new, L0, L
<1>5. /\ DOMAIN L = IF q = 0 THEN k \ {p} ELSE k \cup {p}
      /\ \A r \in DOMAIN L : r # p => L[r] = L0[r]
      /\ q # 0 => L[p] = q
  BY <1>1
<1>6. Follows(L, L, p, q) BY <1>5 DEF Follows
<1>7. ~Recenters(l, p) => Follows(L, L0, p, q) BY <1>4, <1>5 DEF Follows
<1>8. PositiveLevels(l) => PositiveLevels(new)
  BY <1>2, <1>5 DEF PositiveLevels, L, L0
<1> QED BY <1>1, <1>6, <1>7, <1>8 DEF L, L0, new

\* A set() with the quantity that is there already changes nothing.
LEMMA SameQtySameLevels ==
    ASSUME NEW l, OnGridLadder(l), NEW p \in Nat \ {0}, OnGrid(p), NEW L,
           Follows(L, Levels(l), p, get(l, p))
    PROVE  DOMAIN L = DOMAIN Levels(l) /\ \A r \in DOMAIN L : L[r] = Levels(l)[r]
<1> DEFINE L0 == Levels(l)
           q == get(l, p)
<1>1. LadderInvariant(l) BY DEF OnGridLadder
<1>2. p \in DOMAIN L0 => q = L0[p] /\ q # 0 BY <1>1, GetOfLevel, LevelsAreInt
<1>3. p \notin DOMAIN L0 => q = 0 BY GetOfNoLevel
<1> HIDE DEF L0, q
<1>4. /\ DOMAIN L = IF q = 0 THEN DOMAIN L0 \ {p} ELSE DOMAIN L0 \cup {p}
      /\ \A r \in DOMAIN L0 : r # p => L[r] = L0[r]
      /\ q # 0 => L[p] = q
  BY DEF Follows, L0, q
<1>5. DOMAIN L = DOMAIN L0 /\ \A r \in DOMAIN L : L[r] = L0[r] BY <1>2, <1>3, <1>4
<1> QED BY <1>5 DEF L0

-----------------------------------------------------------------------------
(* A side of the book, and a message applied to it.                        *)

\* A consistent ladder with an ordered view; on the grid the view is its top.
SideOK(side, l, view) ==
    /\ LadderInvariant(l)
    /\ view \in Seq(Level) /\ Ordered(side, view) /\ Len(view) <= OfiDepth
    /\ BookOnGrid => /\ OnGridLadder(l) /\ PositiveLevels(l)
                     /\ TopOf(side, Levels(l), view, OfiDepth)

\* What is threaded through the levels of a message.
Halves(side) ==
    {h \in [ladder : LadderType, view : Seq(Level), out : Seq(LevelDeltaType),
            moved : SUBSET Sides] : SideOK(side, h.ladder, h.view)}

Kinds == {Genuine, Backfill, Maintenance}

\* The deltas of one change have their type.
LEMMA DeltasAreTyped ==
    ASSUME NEW side \in Sides, NEW price \in Int, NEW qty \in Nat, NEW delta \in Int,
           NEW kind \in Kinds, NEW level \in Level, NEW before, NEW after
    PROVE  /\ PrimaryDelta(side, price, qty, delta, before, after, kind) \in LevelDeltaType
           /\ EvictionDelta(side, level, kind) \in Seq(LevelDeltaType)
           /\ ReplacementDelta(side, level, kind) \in Seq(LevelDeltaType)
<1>1. \A p \in Int, n \in Nat, d \in Int, was \in BOOLEAN, is \in BOOLEAN, k \in Kinds :
        LevelDelta(side, p, n, d, was, is, k) \in LevelDeltaType
  BY DEF LevelDelta, LevelDeltaType, Kinds
<1>2. InView(before, price) \in BOOLEAN /\ InView(after, price) \in BOOLEAN BY DEF InView
<1>3. SecondaryKind(kind) \in Kinds BY DEF SecondaryKind, Kinds
<1>4. /\ PriceOf(level) \in Int /\ QtyOf(level) \in Nat /\ QtyOf(level) \in Int
      /\ -QtyOf(level) \in Int
  BY DEF Level, PriceOf, QtyOf
<1>5. /\ LevelDelta(side, PriceOf(level), QtyOf(level), -QtyOf(level), TRUE, FALSE,
                    SecondaryKind(kind)) \in LevelDeltaType
      /\ LevelDelta(side, PriceOf(level), QtyOf(level), QtyOf(level), FALSE, TRUE,
                    SecondaryKind(kind)) \in LevelDeltaType
  BY <1>1, <1>3, <1>4
<1>6. /\ << >> \in Seq(LevelDeltaType)
      /\ \A d \in LevelDeltaType : <<d>> \in Seq(LevelDeltaType)
  OBVIOUS
<1>7. PrimaryDelta(side, price, qty, delta, before, after, kind) \in LevelDeltaType
  BY <1>1, <1>2 DEF PrimaryDelta
<1> HIDE DEF Kinds
<1> QED BY <1>5, <1>6, <1>7 DEF EvictionDelta, ReplacementDelta

\* A level change keeps a side consistent.
LEMMA ChangeKeepsSide ==
    ASSUME NEW side \in Sides, NEW h \in Halves(side), NEW price \in Nat \ {0}, NEW qty \in Nat,
           NEW kind \in Kinds, BookOnGrid => OnGrid(price)
    PROVE  applyLevelChange(h, side, price, qty, kind) \in Halves(side)
<1> DEFINE HalfType == [ladder : LadderType, view : Seq(Level), out : Seq(LevelDeltaType),
                        moved : SUBSET Sides]
           old == h.ladder
           new == set(old, price, qty)
           view == IF Recenters(old, price) THEN rebuildOfiSide(side, new) ELSE h.view
           moved == h.moved \cup (IF Recenters(old, price) THEN {side} ELSE {})
           delta == qty - get(old, price)
           c == updateOfiView(side, new, view, price, qty)
           out == Append(h.out, PrimaryDelta(side, price, qty, delta, view, c.view, kind))
                     \o EvictionDelta(side, c.evicted, kind)
                     \o ReplacementDelta(side, c.replacement, kind)
           result1 == applyLevelChange(h, side, price, qty, kind)
<1>0. h \in HalfType /\ SideOK(side, old, h.view) /\ price \in Int
  BY DEF Halves
<1>1. /\ LadderInvariant(old) /\ h.view \in Seq(Level) /\ Ordered(side, h.view)
      /\ Len(h.view) <= OfiDepth
      /\ BookOnGrid => /\ OnGridLadder(old) /\ PositiveLevels(old)
                       /\ TopOf(side, Levels(old), h.view, OfiDepth)
  BY <1>0 DEF SideOK
<1>2. LadderInvariant(new) /\ new \in LadderType
  <2>1. LadderInvariant(new) BY <1>1, SetKeepsInvariant
  <2> QED BY <2>1 DEF LadderInvariant
<1>3. BookOnGrid => /\ OnGridLadder(new) /\ PositiveLevels(new)
                    /\ Follows(Levels(new), Levels(new), price, qty)
                    /\ ~Recenters(old, price) => Follows(Levels(new), Levels(old), price, qty)
  BY <1>1, LevelsAfterSet
<1>4. /\ view \in Seq(Level) /\ Ordered(side, view) /\ Len(view) <= OfiDepth
      /\ moved \in SUBSET Sides
  <2>1. h.moved \in SUBSET Sides BY <1>0
  <2>2. /\ rebuildOfiSide(side, new) \in Seq(Level) /\ Ordered(side, rebuildOfiSide(side, new))
        /\ Len(rebuildOfiSide(side, new)) <= OfiDepth
    BY <1>2, RebuildIsTop
  <2> HIDE DEF new, old
  <2> QED BY <1>1, <2>1, <2>2
<1>5. BookOnGrid /\ Recenters(old, price) => TopOf(side, Levels(new), view, OfiDepth)
  BY <1>2, <1>3, RebuildIsTop
<1>6. /\ c.view \in Seq(Level) /\ Ordered(side, c.view) /\ Len(c.view) <= OfiDepth
      /\ c.evicted \in Level /\ c.replacement \in Level
  <2> HIDE DEF view, new
  <2> QED BY <1>0, <1>2, <1>4, UpdateKeepsView
<1>7. BookOnGrid => TopOf(side, Levels(new), c.view, OfiDepth)
  <2> SUFFICES ASSUME BookOnGrid PROVE TopOf(side, Levels(new), c.view, OfiDepth)
    OBVIOUS
  <2>1. PICK L0 : /\ TopOf(side, L0, view, OfiDepth) /\ DOMAIN L0 \subseteq Int
                  /\ Follows(Levels(new), L0, price, qty)
    <3>1. DOMAIN Levels(new) \subseteq Int /\ DOMAIN Levels(old) \subseteq Int
      BY <1>1, <1>2, LevelsAreInt
    <3>2. ~Recenters(old, price) => view = h.view OBVIOUS
    <3> HIDE DEF view, new, old
    <3> QED BY <1>1, <1>3, <1>5, <3>1, <3>2
  <2> HIDE DEF view, new, old
  <2> QED BY <1>0, <1>2, <1>3, <1>4, <2>1, UpdateKeepsTop
<1>8. BookOnGrid /\ delta = 0 => TopOf(side, Levels(new), view, OfiDepth)
  <2> SUFFICES ASSUME BookOnGrid, delta = 0, ~Recenters(old, price)
               PROVE  TopOf(side, Levels(new), h.view, OfiDepth)
    BY <1>5
  <2>1. get(old, price) = qty BY <1>0, <1>1, GetOfLevel
  <2>2. DOMAIN Levels(new) = DOMAIN Levels(old)
        /\ \A r \in DOMAIN Levels(new) : Levels(new)[r] = Levels(old)[r]
    <3>1. Follows(Levels(new), Levels(old), price, get(old, price)) BY <1>3, <2>1
    <3> HIDE DEF new, old
    <3> QED BY <1>1, <3>1, SameQtySameLevels
  <2>3. TopOf(side, Levels(old), h.view, OfiDepth) BY <1>1
  <2> HIDE DEF new, old
  <2> QED BY <2>2, <2>3 DEF TopOf
<1>9. out \in Seq(LevelDeltaType)
  <2>1. delta \in Int BY <1>0, <1>1, GetOfLevel
  <2> HIDE DEF delta, c, view
  <2>2. /\ PrimaryDelta(side, price, qty, delta, view, c.view, kind) \in LevelDeltaType
        /\ EvictionDelta(side, c.evicted, kind) \in Seq(LevelDeltaType)
        /\ ReplacementDelta(side, c.replacement, kind) \in Seq(LevelDeltaType)
    BY <1>0, <1>6, <2>1, DeltasAreTyped
  <2>3. h.out \in Seq(LevelDeltaType) BY <1>0
  <2> DEFINE first == Append(h.out, PrimaryDelta(side, price, qty, delta, view, c.view, kind))
  <2>4. first \in Seq(LevelDeltaType) BY <2>2, <2>3
  <2> HIDE DEF first
  <2>5. first \o EvictionDelta(side, c.evicted, kind) \in Seq(LevelDeltaType)
    BY <2>2, <2>4
  <2> QED BY <2>2, <2>5 DEF first
<1>10. \/ result1 = h
       \/ delta = 0 /\ result1 = [h EXCEPT !.ladder = new, !.view = view, !.moved = moved]
       \/ result1 = [ladder |-> new, view |-> c.view, moved |-> moved, out |-> out]
  BY DEF applyLevelChange
<1> HIDE DEF old, new, view, moved, delta, c, out, result1
<1>11. CASE result1 = h BY <1>11 DEF result1
<1>12. CASE delta = 0 /\ result1 = [h EXCEPT !.ladder = new, !.view = view, !.moved = moved]
  <2>1. result1 \in HalfType /\ result1.ladder = new /\ result1.view = view
    BY <1>0, <1>2, <1>4, <1>12
  <2>2. SideOK(side, new, view) BY <1>2, <1>3, <1>4, <1>8, <1>12 DEF SideOK
  <2> QED BY <2>1, <2>2 DEF Halves, result1
<1>13. CASE result1 = [ladder |-> new, view |-> c.view, moved |-> moved, out |-> out]
  <2>1. result1 \in HalfType /\ result1.ladder = new /\ result1.view = c.view
    BY <1>2, <1>4, <1>6, <1>9, <1>13
  <2>2. SideOK(side, new, c.view) BY <1>2, <1>3, <1>6, <1>7 DEF SideOK
  <2> QED BY <2>1, <2>2 DEF Halves, result1
<1> QED BY <1>10, <1>11, <1>12, <1>13

\* A list of levels as the adapters parse it: prices, quantities, and the grid.
LEMMA LevelsOfList ==
    ASSUME NEW levels \in LevelList
    PROVE  /\ Len(levels) \in Nat /\ DOMAIN levels = 1 .. Len(levels)
           /\ \A i \in 1 .. Len(levels) :
                 PriceOf(levels[i]) \in Nat \ {0} /\ QtyOf(levels[i]) \in Nat
<1>1. levels \in Seq((Nat \ {0}) \X Nat) BY DEF LevelList
<1>2. \A i \in 1 .. Len(levels) : levels[i] \in (Nat \ {0}) \X Nat BY <1>1, ElementOfSeq
<1> QED BY <1>1, <1>2, LenProperties DEF PriceOf, QtyOf

\* What the change of every level of a message keeps, the message keeps.
LEMMA MessageStays ==
    ASSUME NEW side \in Sides, NEW levels \in LevelList, NEW kind \in Kinds, NEW prior, NEW X,
           [ladder |-> ladders[side], view |-> views[side],
            out |-> prior.out, moved |-> prior.moved] \in X,
           \A h \in X, i \in 1 .. Len(levels) :
              applyLevelChange(h, side, PriceOf(levels[i]), QtyOf(levels[i]), kind) \in X
    PROVE  ApplyLevels(side, levels, kind, prior) \in X
<1> DEFINE n == Len(levels)
           base == [ladder |-> ladders[side], view |-> views[side],
                    out |-> prior.out, moved |-> prior.moved]
           Applied(h, i) == applyLevelChange(h, side, PriceOf(levels[i]), QtyOf(levels[i]), kind)
           Step == [i \in 1 .. n |-> [h \in X |-> Applied(h, i)]]
           Body(F) == [s \in SUBSET (1 .. n) |->
                         IF s = {} THEN base ELSE Applied(F[s \ {Max(s)}], Max(s))]
           Chosen == CHOOSE F : F = Body(F)
<1>0. /\ n \in Nat /\ DOMAIN levels = 1 .. n
      /\ \A i \in 1 .. n : PriceOf(levels[i]) \in Nat \ {0} /\ QtyOf(levels[i]) \in Nat
  BY LevelsOfList
<1>1. ApplyLevels(side, levels, kind, prior) = Chosen[1 .. n]
  BY <1>0 DEF ApplyLevels, FoldLeft, MapThenFoldSet
<1>2. base \in X OBVIOUS
<1> HIDE DEF base
<1>3. \A h \in X, i \in 1 .. n : Applied(h, i) \in X OBVIOUS
<1> HIDE DEF Applied
<1>4. Step \in [1 .. n -> [X -> X]] BY <1>3
<1>5. PICK F \in [SUBSET (1 .. n) -> X] : IsIteration(F, n, base, Step)
  <2> HIDE DEF Step
  <2> QED BY <1>0, <1>2, <1>4, IterationExists
<1>6. F = Body(F)
  <2>1. ASSUME NEW s \in SUBSET (1 .. n), s # {}
        PROVE  Step[Max(s)][F[s \ {Max(s)}]] = Applied(F[s \ {Max(s)}], Max(s))
    <3>1. Max(s) \in 1 .. n BY <1>0, <2>1, MaxOfInterval
    <3>2. F[s \ {Max(s)}] \in X BY <1>5
    <3> QED BY <3>1, <3>2
  <2> QED BY <1>5, <2>1 DEF IsIteration
<1>7. Chosen = Body(Chosen)
  <2> HIDE DEF Body
  <2> QED BY <1>6
<1> HIDE DEF Chosen
<1>8. \A s \in SUBSET (1 .. n) :
         Chosen[s] = IF s = {} THEN base ELSE Applied(Chosen[s \ {Max(s)}], Max(s))
  <2> DEFINE rhs(s) == IF s = {} THEN base ELSE Applied(Chosen[s \ {Max(s)}], Max(s))
  <2>1. Chosen = [s \in SUBSET (1 .. n) |-> rhs(s)] BY <1>7
  <2> HIDE DEF rhs
  <2>2. \A s \in SUBSET (1 .. n) : Chosen[s] = rhs(s) BY <2>1
  <2> QED BY <2>2 DEF rhs
<1>9. Chosen[1 .. 0] \in X
  <2>1. 1 .. 0 = {} /\ 1 .. 0 \in SUBSET (1 .. n) BY <1>0
  <2> QED BY <1>2, <1>8, <2>1
<1>10. ASSUME NEW i \in 1 .. n, Chosen[1 .. i - 1] \in X PROVE Chosen[1 .. i] \in X
  <2>1. 1 .. i \in SUBSET (1 .. n) /\ i \in 1 .. i /\ (1 .. i) \ {i} = 1 .. i - 1 BY <1>0
  <2>2. Max(1 .. i) = i
    <3>1. \A j \in 1 .. i : j <= i OBVIOUS
    <3> QED BY <1>0, <2>1, <3>1, MaxOfInterval
  <2>3. Chosen[1 .. i] = Applied(Chosen[1 .. i - 1], i) BY <1>8, <2>1, <2>2
  <2> QED BY <1>3, <1>10, <2>3
<1>11. Chosen[1 .. n] \in X BY <1>0, <1>9, <1>10, IterationStays
<1> QED BY <1>1, <1>11

\* The levels of a message, one after the other, keep a side consistent.
LEMMA MessageKeepsSide ==
    ASSUME NEW side \in Sides, NEW levels \in LevelList, NEW kind \in Kinds, NEW prior,
           BookOnGrid => LevelsOnGrid(levels),
           SideOK(side, ladders[side], views[side]), ladders[side] \in LadderType,
           prior.out \in Seq(LevelDeltaType), prior.moved \in SUBSET Sides
    PROVE  ApplyLevels(side, levels, kind, prior) \in Halves(side)
<1> DEFINE base == [ladder |-> ladders[side], view |-> views[side],
                    out |-> prior.out, moved |-> prior.moved]
<1>1. base \in Halves(side) BY DEF Halves, SideOK
<1>2. ASSUME NEW h \in Halves(side), NEW i \in 1 .. Len(levels)
      PROVE  applyLevelChange(h, side, PriceOf(levels[i]), QtyOf(levels[i]), kind)
                \in Halves(side)
  <2>1. PriceOf(levels[i]) \in Nat \ {0} /\ QtyOf(levels[i]) \in Nat BY LevelsOfList
  <2>2. BookOnGrid => OnGrid(PriceOf(levels[i])) BY LevelsOfList DEF LevelsOnGrid
  <2> QED BY <2>1, <2>2, ChangeKeepsSide
<1> QED BY <1>1, <1>2, MessageStays

\* A loaded ladder is consistent, on the grid its levels are positive prices.
Loaded ==
    {l \in LadderType : /\ LadderInvariant(l)
                        /\ BookOnGrid => OnGridLadder(l) /\ PositiveLevels(l)}

\* A cleared ladder.
LEMMA ClearIsLoaded ==
    ASSUME NEW l, LadderInvariant(l)
    PROVE  /\ clear(l) \in Loaded /\ clear(l).count = 0 /\ DOMAIN Levels(clear(l)) = {}
<1> DEFINE e == clear(l)
<1>1. LadderInvariant(e) BY ClearKeepsInvariant
<1>2. ~e.initialized /\ e.count = 0
  <2>1. l \in LadderType BY DEF LadderInvariant
  <2> QED BY <2>1 DEF clear, LadderType
<1> HIDE DEF e
<1>3. OnGridLadder(e) BY <1>1, <1>2, ClearFollowsWindow
<1>4. DOMAIN Levels(e) = {} BY <1>1, <1>2, NoBestNoLevel
<1> QED BY <1>1, <1>2, <1>3, <1>4 DEF Loaded, LadderInvariant, PositiveLevels, e

\* The levels of a snapshot, one after the other, leave a consistent ladder.
LEMMA LoadKeepsLadder ==
    ASSUME NEW l, LadderInvariant(l), NEW levels \in LevelList,
           BookOnGrid => LevelsOnGrid(levels)
    PROVE  LoadSide(l, levels) \in Loaded
<1> DEFINE n == Len(levels)
           X == Loaded
           base == clear(l)
           Step == [i \in 1 .. n |-> [x \in X |-> LoadLevel(x, levels[i])]]
           Body(F) == [s \in SUBSET (1 .. n) |->
                         IF s = {} THEN base ELSE LoadLevel(F[s \ {Max(s)}], levels[Max(s)])]
           Chosen == CHOOSE F : F = Body(F)
<1>0. /\ n \in Nat /\ DOMAIN levels = 1 .. n
      /\ \A i \in 1 .. n : PriceOf(levels[i]) \in Nat \ {0} /\ QtyOf(levels[i]) \in Nat
  BY LevelsOfList
<1>1. LoadSide(l, levels) = Chosen[1 .. n]
  BY <1>0 DEF LoadSide, FoldLeft, MapThenFoldSet
<1>2. base \in X BY ClearIsLoaded
<1> HIDE DEF base
<1>3. ASSUME NEW x \in X, NEW i \in 1 .. n PROVE LoadLevel(x, levels[i]) \in X
  <2> DEFINE p == PriceOf(levels[i])
             q == QtyOf(levels[i])
  <2>1. p \in Nat \ {0} /\ q \in Nat /\ (BookOnGrid => OnGrid(p)) BY <1>0 DEF LevelsOnGrid
  <2>2. x \in LadderType /\ LadderInvariant(x)
        /\ (BookOnGrid => OnGridLadder(x) /\ PositiveLevels(x))
    BY DEF Loaded
  <2>3. LoadLevel(x, levels[i]) \in {x, set(x, p, q)} BY DEF LoadLevel
  <2> HIDE DEF p, q
  <2>4. LadderInvariant(set(x, p, q)) /\ set(x, p, q) \in LadderType
    <3>1. LadderInvariant(set(x, p, q)) BY <2>1, <2>2, SetKeepsInvariant
    <3> QED BY <3>1 DEF LadderInvariant
  <2>5. BookOnGrid => OnGridLadder(set(x, p, q)) /\ PositiveLevels(set(x, p, q))
    BY <2>1, <2>2, LevelsAfterSet
  <2>6. set(x, p, q) \in Loaded BY <2>4, <2>5 DEF Loaded
  <2> QED BY <2>3, <2>6
<1> HIDE DEF X
<1>4. Step \in [1 .. n -> [X -> X]] BY <1>3, SMTT(60)
<1>5. PICK F \in [SUBSET (1 .. n) -> X] : IsIteration(F, n, base, Step)
  <2> HIDE DEF Step
  <2> QED BY <1>0, <1>2, <1>4, IterationExists
<1>6. F = Body(F)
  <2>1. ASSUME NEW s \in SUBSET (1 .. n), s # {}
        PROVE  Step[Max(s)][F[s \ {Max(s)}]] = LoadLevel(F[s \ {Max(s)}], levels[Max(s)])
    <3>1. Max(s) \in 1 .. n BY <1>0, <2>1, MaxOfInterval
    <3>2. F[s \ {Max(s)}] \in X BY <1>5
    <3> QED BY <3>1, <3>2
  <2> QED BY <1>5, <2>1 DEF IsIteration
<1>7. Chosen = Body(Chosen)
  <2> HIDE DEF Body
  <2> QED BY <1>6
<1> HIDE DEF Chosen
<1>8. \A s \in SUBSET (1 .. n) :
         Chosen[s] = IF s = {} THEN base ELSE LoadLevel(Chosen[s \ {Max(s)}], levels[Max(s)])
  <2> DEFINE rhs(s) == IF s = {} THEN base ELSE LoadLevel(Chosen[s \ {Max(s)}], levels[Max(s)])
  <2>1. Chosen = [s \in SUBSET (1 .. n) |-> rhs(s)] BY <1>7
  <2> HIDE DEF rhs
  <2>2. \A s \in SUBSET (1 .. n) : Chosen[s] = rhs(s) BY <2>1
  <2> QED BY <2>2 DEF rhs
<1>9. Chosen[1 .. 0] \in X
  <2>1. 1 .. 0 = {} /\ 1 .. 0 \in SUBSET (1 .. n) BY <1>0
  <2> QED BY <1>2, <1>8, <2>1
<1>10. ASSUME NEW i \in 1 .. n, Chosen[1 .. i - 1] \in X PROVE Chosen[1 .. i] \in X
  <2>1. 1 .. i \in SUBSET (1 .. n) /\ i \in 1 .. i /\ (1 .. i) \ {i} = 1 .. i - 1 BY <1>0
  <2>2. Max(1 .. i) = i
    <3>1. \A j \in 1 .. i : j <= i OBVIOUS
    <3> QED BY <1>0, <2>1, <3>1, MaxOfInterval
  <2>3. Chosen[1 .. i] = LoadLevel(Chosen[1 .. i - 1], levels[i]) BY <1>8, <2>1, <2>2
  <2> QED BY <1>3, <1>10, <2>3
<1>11. Chosen[1 .. n] \in X BY <1>0, <1>9, <1>10, IterationStays
<1> QED BY <1>1, <1>11 DEF X

\* A loaded side with its rebuilt view.
LEMMA LoadedSideOK ==
    ASSUME NEW side \in Sides, NEW l \in Loaded
    PROVE  SideOK(side, l, rebuildOfiSide(side, l))
<1>1. /\ LadderInvariant(l)
      /\ BookOnGrid => OnGridLadder(l) /\ PositiveLevels(l)
  BY DEF Loaded
<1> QED BY <1>1, RebuildIsTop DEF SideOK

\* A cleared side with an empty view.
LEMMA ClearedSideOK ==
    ASSUME NEW side \in Sides, NEW l \in Loaded, DOMAIN Levels(l) = {}
    PROVE  SideOK(side, l, << >>)
<1>1. /\ LadderInvariant(l)
      /\ BookOnGrid => OnGridLadder(l) /\ PositiveLevels(l)
  BY DEF Loaded
<1>2. OfiDepth \in Nat BY OrderBookAssumption
<1>3. << >> \in Seq(Level) /\ Len(<< >>) = 0 /\ DOMAIN << >> = {} BY EmptySeq
<1>4. TopOf(side, Levels(l), << >>, OfiDepth) BY <1>2, TopOfNothing
<1>5. Len(<< >>) <= OfiDepth BY <1>2, <1>3
<1>6. Ordered(side, << >>) BY <1>3 DEF Ordered
<1> QED BY <1>1, <1>3, <1>4, <1>5, <1>6 DEF SideOK

-----------------------------------------------------------------------------
(* The invariant.                                                          *)

ResultType == [success : BOOLEAN, deltas : Seq(LevelDeltaType), moved : SUBSET Sides]

BookOK(ls, vs) ==
    /\ ls \in [Sides -> LadderType] /\ vs \in [Sides -> Seq(Level)]
    /\ \A s \in Sides : SideOK(s, ls[s], vs[s])

BookInvariant ==
    /\ feed \in Feeds
    /\ BookOK(ladders, views)
    /\ lastUpdateId \in 0 .. MaxId
    /\ snapshotApplied \in BOOLEAN
    /\ result \in ResultType
    /\ ClearedBookIsEmpty

\* The messages of a feed carry lists of levels.
LEMMA MessagesAreLists ==
    ASSUME feed \in Feeds, NEW m \in Snapshots[feed] \cup Updates[feed]
    PROVE  /\ m.bids \in LevelList /\ m.asks \in LevelList
           /\ BookOnGrid => LevelsOnGrid(m.bids) /\ LevelsOnGrid(m.asks)
  BY OrderBookAssumption DEF BookOnGrid

\* What a call returns when it changes nothing.
LEMMA NothingIsResult == Nothing \in ResultType /\ [Nothing EXCEPT !.success = FALSE] \in ResultType
<1>1. << >> \in Seq(LevelDeltaType) BY EmptySeq
<1> QED BY <1>1 DEF Nothing, ResultType

\* A snapshot replaces both sides.
LEMMA SnapshotKeepsBook ==
    ASSUME BookInvariant, NEW m \in Snapshots[feed], NEW id, applySnapshot(id, m.bids, m.asks)
    PROVE  BookOK(ladders, views)' /\ result' \in ResultType
<1> DEFINE loaded == [s \in Sides |-> LoadSide(ladders[s], IF s = "bid" THEN m.bids ELSE m.asks)]
<1>1. /\ ladders' = loaded
      /\ views' = [s \in Sides |-> rebuildOfiSide(s, loaded[s])]
      /\ result' = Nothing
  BY DEF applySnapshot
<1>2. feed \in Feeds /\ \A s \in Sides : LadderInvariant(ladders[s])
  BY DEF BookInvariant, BookOK, SideOK
<1>3. ASSUME NEW s \in Sides
      PROVE  /\ ladders'[s] \in LadderType /\ views'[s] \in Seq(Level)
             /\ SideOK(s, ladders'[s], views'[s])
  <2> DEFINE levels == IF s = "bid" THEN m.bids ELSE m.asks
  <2>1. levels \in LevelList /\ (BookOnGrid => LevelsOnGrid(levels)) BY <1>2, MessagesAreLists
  <2>2. ladders'[s] = LoadSide(ladders[s], levels) BY <1>1
  <2>3. views'[s] = rebuildOfiSide(s, ladders'[s]) BY <1>1
  <2> HIDE DEF levels
  <2>4. ladders'[s] \in Loaded BY <1>2, <2>1, <2>2, LoadKeepsLadder
  <2>5. SideOK(s, ladders'[s], views'[s]) BY <2>3, <2>4, LoadedSideOK
  <2>6. ladders'[s] \in LadderType BY <2>4 DEF Loaded
  <2> QED BY <2>5, <2>6 DEF SideOK
<1>4. ladders' \in [Sides -> LadderType] /\ views' \in [Sides -> Seq(Level)]
  <2>1. ladders' = [s \in Sides |-> ladders'[s]] /\ views' = [s \in Sides |-> views'[s]]
    BY <1>1
  <2> QED BY <1>3, <2>1
<1>5. BookOK(ladders', views') BY <1>3, <1>4 DEF BookOK
<1> QED BY <1>1, <1>5, NothingIsResult

\* The levels of an update change one side, then the other.
LEMMA BothSidesKeepBook ==
    ASSUME BookInvariant, NEW first \in Sides, NEW second \in Sides, first # second,
           NEW firstLevels \in LevelList, NEW secondLevels \in LevelList, NEW kind \in Kinds,
           BookOnGrid => LevelsOnGrid(firstLevels) /\ LevelsOnGrid(secondLevels),
           ApplyBothSides(first, firstLevels, second, secondLevels, kind)
    PROVE  BookOK(ladders, views)' /\ result' \in ResultType
<1> DEFINE prior == [out |-> << >>, moved |-> {}]
           a == ApplyLevels(first, firstLevels, kind, prior)
           b == ApplyLevels(second, secondLevels, kind, a)
           HalfType == [ladder : LadderType, view : Seq(Level), out : Seq(LevelDeltaType),
                        moved : SUBSET Sides]
<1>1. /\ ladders' = [ladders EXCEPT ![first] = a.ladder, ![second] = b.ladder]
      /\ views' = [views EXCEPT ![first] = a.view, ![second] = b.view]
      /\ result' = [success |-> TRUE, deltas |-> b.out, moved |-> b.moved]
  BY DEF ApplyBothSides
<1>2. /\ ladders \in [Sides -> LadderType] /\ views \in [Sides -> Seq(Level)]
      /\ \A s \in Sides : SideOK(s, ladders[s], views[s])
  BY DEF BookInvariant, BookOK
<1>3. prior.out \in Seq(LevelDeltaType) /\ prior.moved \in SUBSET Sides
  BY EmptySeq
<1> HIDE DEF prior
<1>4. a \in Halves(first) BY <1>2, <1>3, MessageKeepsSide
<1> HIDE DEF a
<1>5. a \in HalfType /\ SideOK(first, a.ladder, a.view) BY <1>4 DEF Halves
<1>6. a.out \in Seq(LevelDeltaType) /\ a.moved \in SUBSET Sides BY <1>5
<1>7. b \in Halves(second) BY <1>2, <1>6, MessageKeepsSide
<1> HIDE DEF b
<1>8. b \in HalfType /\ SideOK(second, b.ladder, b.view) BY <1>7 DEF Halves
<1>9. /\ a.ladder \in LadderType /\ a.view \in Seq(Level)
      /\ b.ladder \in LadderType /\ b.view \in Seq(Level)
      /\ b.out \in Seq(LevelDeltaType) /\ b.moved \in SUBSET Sides
  BY <1>5, <1>8
<1>10. ladders' \in [Sides -> LadderType] /\ views' \in [Sides -> Seq(Level)]
  BY <1>1, <1>2, <1>9
<1>11. \A s \in Sides : SideOK(s, ladders'[s], views'[s])
  <2>1. /\ ladders'[first] = a.ladder /\ ladders'[second] = b.ladder
        /\ views'[first] = a.view /\ views'[second] = b.view
    BY <1>1, <1>2
  <2>2. \A s \in Sides : s = first \/ s = second BY DEF Sides
  <2> QED BY <1>5, <1>8, <2>1, <2>2
<1>12. result' \in ResultType BY <1>1, <1>9 DEF ResultType
<1>13. BookOK(ladders', views') BY <1>10, <1>11 DEF BookOK
<1> QED BY <1>12, <1>13

\* A cleared book.
LEMMA ClearKeepsBook ==
    ASSUME BookInvariant, clearBook
    PROVE  /\ BookOK(ladders, views)' /\ result' \in ResultType
           /\ \A s \in Sides : ladders'[s].count = 0
<1>1. /\ ladders' = [s \in Sides |-> clear(ladders[s])]
      /\ views' = [s \in Sides |-> << >>]
      /\ result' = Nothing
  BY DEF clearBook
<1>2. \A s \in Sides : LadderInvariant(ladders[s]) BY DEF BookInvariant, BookOK, SideOK
<1>3. ASSUME NEW s \in Sides
      PROVE  /\ ladders'[s] \in LadderType /\ views'[s] \in Seq(Level)
             /\ SideOK(s, ladders'[s], views'[s]) /\ ladders'[s].count = 0
  <2>1. ladders'[s] = clear(ladders[s]) /\ views'[s] = << >> BY <1>1
  <2>2. /\ ladders'[s] \in Loaded /\ ladders'[s].count = 0 /\ DOMAIN Levels(ladders'[s]) = {}
    BY <1>2, <2>1, ClearIsLoaded
  <2>3. SideOK(s, ladders'[s], views'[s]) BY <2>1, <2>2, ClearedSideOK
  <2> QED BY <2>2, <2>3 DEF SideOK, Loaded
<1>4. ladders' \in [Sides -> LadderType] /\ views' \in [Sides -> Seq(Level)]
  <2>1. ladders' = [s \in Sides |-> ladders'[s]] /\ views' = [s \in Sides |-> views'[s]]
    BY <1>1
  <2> QED BY <1>3, <2>1
<1>5. BookOK(ladders', views') BY <1>3, <1>4 DEF BookOK
<1> QED BY <1>1, <1>3, <1>5, NothingIsResult

\* A book that was just built.
LEMMA NewBookIsOK == Init => BookInvariant
<1> SUFFICES ASSUME Init PROVE BookInvariant
  OBVIOUS
<1>1. /\ feed \in Feeds /\ ladders = [s \in Sides |-> NewLadder]
      /\ views = [s \in Sides |-> << >>] /\ lastUpdateId = 0 /\ ~snapshotApplied
      /\ snapshotApplied = FALSE /\ result = Nothing
  BY DEF Init
<1>2. LadderInvariant(NewLadder) /\ NewLadder \in LadderType /\ NewLadder.count = 0
      /\ ~NewLadder.initialized
  <2>1. NewLadder.count = 0 /\ ~NewLadder.initialized BY DEF NewLadder
  <2> QED BY <2>1, NewLadderInvariant DEF LadderInvariant
<1>3. NewLadder \in Loaded /\ DOMAIN Levels(NewLadder) = {}
  <2>1. DOMAIN Levels(NewLadder) = {} BY <1>2, NoBestNoLevel
  <2>2. OnGridLadder(NewLadder) BY <1>2, ClearFollowsWindow
  <2> QED BY <1>2, <2>1, <2>2 DEF Loaded, PositiveLevels
<1>4. ASSUME NEW s \in Sides PROVE SideOK(s, ladders[s], views[s]) /\ ladders[s].count = 0
  <2>1. ladders[s] = NewLadder /\ views[s] = << >> BY <1>1
  <2>2. SideOK(s, NewLadder, << >>) BY <1>3, ClearedSideOK
  <2> QED BY <1>2, <2>1, <2>2
<1>5. << >> \in Seq(Level) BY EmptySeq
<1>6. BookOK(ladders, views) BY <1>1, <1>2, <1>4, <1>5 DEF BookOK
<1>7. 0 \in 0 .. MaxId BY OrderBookAssumption
<1>8. ClearedBookIsEmpty BY <1>1, <1>4 DEF ClearedBookIsEmpty
<1> QED BY <1>1, <1>6, <1>7, <1>8, NothingIsResult DEF BookInvariant

\* An operation that succeeds or refuses: what it leaves as it was stays in order.
LEMMA RefusalKeepsBook ==
    ASSUME BookInvariant, result' \in ResultType,
           UNCHANGED <<feed, ladders, views, lastUpdateId, snapshotApplied>>
    PROVE  BookInvariant'
  BY DEF BookInvariant, ClearedBookIsEmpty, BookOK

\* Every operation keeps the invariant.
LEMMA OperationsKeepBook == BookInvariant /\ [Next]_vars => BookInvariant'
<1> SUFFICES ASSUME BookInvariant, [Next]_vars PROVE BookInvariant'
  OBVIOUS
<1>0. /\ feed \in Feeds /\ BookOK(ladders, views) /\ lastUpdateId \in 0 .. MaxId
      /\ snapshotApplied \in BOOLEAN /\ result \in ResultType /\ ClearedBookIsEmpty
      /\ MaxId \in Nat
  BY OrderBookAssumption DEF BookInvariant
<1>1. CASE BinanceSnapshot /\ UNCHANGED feed
  <2>1. PICK m \in Snapshots[feed], id \in 1 .. MaxId : applySnapshot(id, m.bids, m.asks)
    BY <1>1 DEF BinanceSnapshot
  <2>2. BookOK(ladders, views)' /\ result' \in ResultType BY <2>1, SnapshotKeepsBook
  <2>3. lastUpdateId' = id /\ snapshotApplied' = TRUE BY <2>1 DEF applySnapshot
  <2>4. lastUpdateId' \in 0 .. MaxId BY <1>0, <2>3
  <2>5. ClearedBookIsEmpty' BY <2>3 DEF ClearedBookIsEmpty
  <2> QED BY <1>0, <1>1, <2>2, <2>3, <2>4, <2>5 DEF BookInvariant
<1>2. CASE BinanceUpdate /\ UNCHANGED feed
  <2>1. PICK m \in Updates[feed], last \in 2 .. MaxId, kind \in {Genuine, Backfill} :
          \E first \in 2 .. last : applyUpdate(first, last, m.asks, m.bids, kind)
    BY <1>2 DEF BinanceUpdate
  <2>2. PICK first \in 2 .. last : applyUpdate(first, last, m.asks, m.bids, kind)
    BY <2>1
  <2>3. CASE /\ last <= lastUpdateId
             /\ result' = Nothing
             /\ UNCHANGED <<ladders, views, lastUpdateId, snapshotApplied>>
    BY <1>2, <2>3, NothingIsResult, RefusalKeepsBook
  <2>4. CASE /\ result' = [Nothing EXCEPT !.success = FALSE]
             /\ UNCHANGED <<ladders, views, lastUpdateId, snapshotApplied>>
    BY <1>2, <2>4, NothingIsResult, RefusalKeepsBook
  <2>5. CASE /\ last > lastUpdateId /\ first <= lastUpdateId + 1
             /\ ApplyBothSides("ask", m.asks, "bid", m.bids, kind)
             /\ lastUpdateId' = last
             /\ UNCHANGED snapshotApplied
    <3>1. m.asks \in LevelList /\ m.bids \in LevelList
          /\ (BookOnGrid => LevelsOnGrid(m.asks) /\ LevelsOnGrid(m.bids))
      BY <1>0, MessagesAreLists
    <3>2. "ask" \in Sides /\ "bid" \in Sides /\ "ask" # "bid" /\ kind \in Kinds
      BY DEF Sides, Kinds
    <3>3. BookOK(ladders, views)' /\ result' \in ResultType
      BY <2>5, <3>1, <3>2, BothSidesKeepBook
    <3>4. lastUpdateId' \in 0 .. MaxId BY <1>0, <2>5
    <3>5. snapshotApplied
      <4>1. lastUpdateId # 0 BY <1>0, <2>5
      <4> QED BY <1>0, <4>1 DEF ClearedBookIsEmpty
    <3>6. ClearedBookIsEmpty' BY <2>5, <3>5 DEF ClearedBookIsEmpty
    <3> QED BY <1>0, <1>2, <2>5, <3>3, <3>4, <3>6 DEF BookInvariant
  <2> QED BY <2>2, <2>3, <2>4, <2>5 DEF applyUpdate
<1>3. CASE KrakenSnapshot /\ UNCHANGED feed
  <2>1. PICK m \in Snapshots[feed] : applySnapshot(0, m.bids, m.asks)
    BY <1>3 DEF KrakenSnapshot
  <2>2. BookOK(ladders, views)' /\ result' \in ResultType BY <2>1, SnapshotKeepsBook
  <2>3. lastUpdateId' = 0 /\ snapshotApplied' = TRUE BY <2>1 DEF applySnapshot
  <2>4. lastUpdateId' \in 0 .. MaxId BY <1>0, <2>3
  <2>5. ClearedBookIsEmpty' BY <2>3 DEF ClearedBookIsEmpty
  <2> QED BY <1>0, <1>3, <2>2, <2>3, <2>4, <2>5 DEF BookInvariant
<1>4. CASE KrakenUpdate /\ UNCHANGED feed
  <2>1. PICK m \in Updates[feed] : applyDelta(m.bids, m.asks, Genuine)
    BY <1>4 DEF KrakenUpdate
  <2>2. /\ ApplyBothSides("bid", m.bids, "ask", m.asks, Genuine)
        /\ UNCHANGED <<lastUpdateId, snapshotApplied>> /\ snapshotApplied
    BY <1>4, <2>1 DEF applyDelta, KrakenUpdate
  <2>3. m.asks \in LevelList /\ m.bids \in LevelList
        /\ (BookOnGrid => LevelsOnGrid(m.bids) /\ LevelsOnGrid(m.asks))
    BY <1>0, MessagesAreLists
  <2>4. "ask" \in Sides /\ "bid" \in Sides /\ "ask" # "bid" /\ Genuine \in Kinds
    BY DEF Sides, Kinds
  <2>5. BookOK(ladders, views)' /\ result' \in ResultType
    BY <2>2, <2>3, <2>4, BothSidesKeepBook
  <2>6. ClearedBookIsEmpty' BY <2>2 DEF ClearedBookIsEmpty
  <2> QED BY <1>0, <1>4, <2>2, <2>5, <2>6 DEF BookInvariant
<1>5. CASE clearBook /\ UNCHANGED feed
  <2>1. /\ BookOK(ladders, views)' /\ result' \in ResultType
        /\ \A s \in Sides : ladders'[s].count = 0
    BY <1>5, ClearKeepsBook
  <2>2. lastUpdateId' = 0 /\ snapshotApplied' = FALSE BY <1>5 DEF clearBook
  <2>3. ClearedBookIsEmpty' BY <2>1, <2>2 DEF ClearedBookIsEmpty
  <2>4. lastUpdateId' \in 0 .. MaxId BY <1>0, <2>2
  <2> QED BY <1>0, <1>5, <2>1, <2>2, <2>3, <2>4 DEF BookInvariant
<1>6. CASE UNCHANGED vars
  <2>1. UNCHANGED <<feed, ladders, views, lastUpdateId, snapshotApplied, result>>
    BY <1>6 DEF vars
  <2> QED BY <1>0, <2>1, RefusalKeepsBook
<1> QED BY <1>1, <1>2, <1>3, <1>4, <1>5, <1>6 DEF Next

\* The invariant holds.
LEMMA BookInvariantHolds == Spec => []BookInvariant
  BY NewBookIsOK, OperationsKeepBook, PTL DEF Spec

\* The book keeps its shape, and no view grows beyond its depth
\* (order_book.cpp:186-285).
THEOREM TypeCorrect == Spec => []TypeOK
<1>1. BookInvariant => TypeOK
  BY DEF BookInvariant, BookOK, SideOK, TypeOK, ResultType, Level
<1> QED BY <1>1, BookInvariantHolds, PTL

\* A cleared book shows nothing and is behind every update, so that no update
\* continues it (order_book.cpp:287-297).
THEOREM ClearedBooksAreEmpty == Spec => []ClearedBookIsEmpty
<1>1. BookInvariant => ClearedBookIsEmpty BY DEF BookInvariant
<1> QED BY <1>1, BookInvariantHolds, PTL

\* On the tick grid, whatever messages arrive in whatever order: the view that is
\* patched level by level is the top of the ladder (order_book.cpp:186-285).
THEOREM ViewsAreTops ==
    ASSUME BookOnGrid
    PROVE  Spec => []ViewIsTopOfBook
<1>1. BookInvariant => ViewIsTopOfBook
  BY DEF BookInvariant, BookOK, SideOK, ViewIsTopOfBook
<1> QED BY <1>1, BookInvariantHolds, PTL

-----------------------------------------------------------------------------
(* What a view holds in total.                                             *)

\* A total is the last of the partial totals.
LEMMA TotalUnfolds ==
    ASSUME NEW q \in Seq(Level)
    PROVE  \E h \in [0 .. Len(q) -> Int] :
              /\ h[0] = 0 /\ \A i \in 1 .. Len(q) : h[i] = h[i - 1] + QtyOf(q[i])
              /\ ViewTotal(q) = h[Len(q)]
<1> DEFINE n == Len(q)
           With(x, level) == x + QtyOf(level)
           Step == [i \in 1 .. n |-> [x \in Int |-> With(x, q[i])]]
           Body(F) == [s \in SUBSET (1 .. n) |->
                         IF s = {} THEN 0 ELSE With(F[s \ {Max(s)}], q[Max(s)])]
           Chosen == CHOOSE F : F = Body(F)
<1>0. n \in Nat /\ DOMAIN q = 1 .. n /\ \A i \in 1 .. n : QtyOf(q[i]) \in Nat
  BY LevelsOfView
<1>1. ViewTotal(q) = Chosen[1 .. n]
  BY <1>0 DEF ViewTotal, FoldLeft, MapThenFoldSet
<1>2. Step \in [1 .. n -> [Int -> Int]]
  BY <1>0
<1>3. PICK F \in [SUBSET (1 .. n) -> Int] : IsIteration(F, n, 0, Step)
  <2>1. 0 \in Int OBVIOUS
  <2> HIDE DEF Step
  <2> QED BY <1>0, <1>2, <2>1, IterationExists
<1>4. F = Body(F)
  <2>1. ASSUME NEW s \in SUBSET (1 .. n), s # {}
        PROVE  Step[Max(s)][F[s \ {Max(s)}]] = With(F[s \ {Max(s)}], q[Max(s)])
    <3>1. Max(s) \in 1 .. n BY <1>0, <2>1, MaxOfInterval
    <3>2. F[s \ {Max(s)}] \in Int BY <1>3
    <3> HIDE DEF With
    <3> QED BY <3>1, <3>2
  <2> QED BY <1>3, <2>1 DEF IsIteration
<1>5. Chosen = Body(Chosen)
  <2> HIDE DEF Body
  <2> QED BY <1>4
<1> HIDE DEF Chosen, With
<1>6. \A s \in SUBSET (1 .. n) :
         Chosen[s] = IF s = {} THEN 0 ELSE With(Chosen[s \ {Max(s)}], q[Max(s)])
  <2> DEFINE rhs(s) == IF s = {} THEN 0 ELSE With(Chosen[s \ {Max(s)}], q[Max(s)])
  <2>1. Chosen = [s \in SUBSET (1 .. n) |-> rhs(s)] BY <1>5
  <2> HIDE DEF rhs
  <2>2. \A s \in SUBSET (1 .. n) : Chosen[s] = rhs(s) BY <2>1
  <2> QED BY <2>2 DEF rhs
<1> DEFINE h == [i \in 0 .. n |-> Chosen[1 .. i]]
<1>7. h[0] = 0
  <2>1. 1 .. 0 = {} /\ 1 .. 0 \in SUBSET (1 .. n) /\ 0 \in 0 .. n BY <1>0
  <2> QED BY <1>6, <2>1
<1>8. ASSUME NEW i \in 1 .. n PROVE h[i] = With(h[i - 1], q[i])
  <2>1. 1 .. i \in SUBSET (1 .. n) /\ i \in 1 .. i /\ (1 .. i) \ {i} = 1 .. i - 1 BY <1>0
  <2>2. Max(1 .. i) = i
    <3>1. \A j \in 1 .. i : j <= i OBVIOUS
    <3> QED BY <1>0, <2>1, <3>1, MaxOfInterval
  <2>3. i \in 0 .. n /\ i - 1 \in 0 .. n BY <1>0
  <2> QED BY <1>6, <2>1, <2>2, <2>3
<1>9. \A i \in 0 .. n : h[i] \in Int
  <2> DEFINE T == {i \in 0 .. n : h[i] \in Int}
  <2> HIDE DEF h
  <2>1. 0 \in T BY <1>0, <1>7
  <2>2. ASSUME NEW m \in 0 .. n, m \in T, m < n PROVE m + 1 \in T
    <3>1. m + 1 \in 1 .. n /\ (m + 1) - 1 = m BY <1>0, <2>2
    <3>2. h[m + 1] = h[m] + QtyOf(q[m + 1]) BY <1>8, <3>1 DEF With
    <3>3. QtyOf(q[m + 1]) \in Nat /\ h[m] \in Int BY <1>0, <2>2, <3>1
    <3> QED BY <3>1, <3>2, <3>3
  <2>3. 0 .. n \subseteq T
    <3> HIDE DEF T
    <3> QED BY <1>0, <2>1, <2>2, InductionUpTo
  <2> QED BY <2>3
<1>10. h[n] = Chosen[1 .. n] BY <1>0
<1>11. h \in [0 .. n -> Int]
  <2> HIDE DEF Chosen
  <2> QED BY <1>9
<1> HIDE DEF h
<1>12. /\ h[0] = 0 /\ \A i \in 1 .. n : h[i] = h[i - 1] + QtyOf(q[i])
       /\ ViewTotal(q) = h[n]
  BY <1>1, <1>7, <1>8, <1>10 DEF With
<1> QED BY <1>11, <1>12

\* One more level adds its quantity, wherever it stands.
LEMMA TotalOfOneMore ==
    ASSUME NEW q \in Seq(Level), NEW r \in Seq(Level), NEW k \in 1 .. Len(q) + 1,
           Len(r) = Len(q) + 1,
           \A j \in 1 .. Len(q) : r[IF j < k THEN j ELSE j + 1] = q[j]
    PROVE  /\ ViewTotal(q) \in Int /\ QtyOf(r[k]) \in Nat
           /\ ViewTotal(r) = ViewTotal(q) + QtyOf(r[k])
<1> DEFINE n == Len(q)
           add == QtyOf(r[k])
<1>0. /\ n \in Nat /\ k \in 1 .. n + 1 /\ Len(r) = n + 1
      /\ \A i \in 1 .. n : QtyOf(q[i]) \in Nat
      /\ \A i \in 1 .. n + 1 : QtyOf(r[i]) \in Nat
      /\ \A j \in 1 .. n : QtyOf(r[IF j < k THEN j ELSE j + 1]) = QtyOf(q[j])
  BY LevelsOfView
<1>1. PICK g \in [0 .. n -> Int] :
        /\ g[0] = 0 /\ \A i \in 1 .. n : g[i] = g[i - 1] + QtyOf(q[i])
        /\ ViewTotal(q) = g[n]
  BY TotalUnfolds
<1>2. PICK h \in [0 .. n + 1 -> Int] :
        /\ h[0] = 0 /\ \A i \in 1 .. n + 1 : h[i] = h[i - 1] + QtyOf(r[i])
        /\ ViewTotal(r) = h[n + 1]
  BY <1>0, TotalUnfolds
<1> DEFINE T == {i \in 0 .. n : /\ i < k => h[i] = g[i]
                                /\ i >= k - 1 => h[i + 1] = g[i] + add}
<1> HIDE DEF n, add
<1>3. h[k] = h[k - 1] + add BY <1>0, <1>2 DEF add
<1>4. 0 \in T
  <2>1. k = 1 => h[1] = add BY <1>2, <1>3, <1>0 DEF add
  <2> QED BY <1>0, <1>1, <1>2, <2>1
<1>5. ASSUME NEW m \in 0 .. n, m \in T, m < n PROVE m + 1 \in T
  <2>0. m + 1 \in 1 .. n /\ m + 1 \in 0 .. n /\ m + 1 \in 1 .. n + 1 /\ (m + 1) - 1 = m
    BY <1>0, <1>5
  <2>1. g[m + 1] = g[m] + QtyOf(q[m + 1]) BY <1>1, <2>0
  <2>2. m + 1 < k => h[m + 1] = g[m + 1]
    <3> SUFFICES ASSUME m + 1 < k PROVE h[m + 1] = g[m + 1]
      OBVIOUS
    <3>1. h[m + 1] = h[m] + QtyOf(r[m + 1]) BY <1>2, <2>0
    <3>2. QtyOf(r[m + 1]) = QtyOf(q[m + 1]) BY <1>0, <2>0
    <3>3. h[m] = g[m] BY <1>0, <1>5, <2>0
    <3> QED BY <2>1, <3>1, <3>2, <3>3
  <2>3. m + 1 >= k - 1 => h[(m + 1) + 1] = g[m + 1] + add
    <3>1. CASE m + 1 = k - 1
      <4>1. m + 1 < k /\ (m + 1) + 1 = k BY <1>0, <3>1
      <4> QED BY <1>3, <2>2, <3>1, <4>1
    <3>2. CASE m + 1 > k - 1
      <4>1. ~(m + 1 < k) /\ m >= k - 1 /\ (m + 1) + 1 \in 1 .. n + 1
            /\ ((m + 1) + 1) - 1 = m + 1
        BY <1>0, <2>0, <3>2
      <4>2. h[(m + 1) + 1] = h[m + 1] + QtyOf(r[(m + 1) + 1]) BY <1>2, <4>1
      <4>3. QtyOf(r[(m + 1) + 1]) = QtyOf(q[m + 1]) BY <1>0, <2>0, <4>1
      <4>4. h[m + 1] = g[m] + add BY <1>5, <4>1
      <4>5. g[m] \in Int /\ add \in Nat /\ QtyOf(q[m + 1]) \in Nat
        BY <1>0, <1>1, <1>5, <2>0 DEF add
      <4> QED BY <2>1, <4>2, <4>3, <4>4, <4>5
    <3> QED BY <1>0, <2>0, <3>1, <3>2
  <2> QED BY <2>0, <2>2, <2>3
<1>6. 0 .. n \subseteq T
  <2> HIDE DEF T
  <2> QED BY <1>0, <1>4, <1>5, InductionUpTo
<1>7. n \in T
  <2> HIDE DEF T
  <2>1. n \in 0 .. n BY <1>0
  <2> QED BY <1>6, <2>1
<1>8. ViewTotal(r) = ViewTotal(q) + add BY <1>0, <1>1, <1>2, <1>7
<1>9. ViewTotal(q) \in Int BY <1>0, <1>1
<1> QED BY <1>0, <1>8, <1>9 DEF add

\* What each of the changes of a list of levels makes of its total.
LEMMA TotalOfChanged ==
    ASSUME NEW view \in Seq(Level)
    PROVE  /\ ViewTotal(view) \in Int
           /\ \A k \in 1 .. Len(view) :
                 ViewTotal(RemoveAt(view, k)) = ViewTotal(view) - QtyOf(view[k])
           /\ \A k \in 1 .. Len(view) + 1, e \in Level :
                 ViewTotal(InsertAt(view, k, e)) = ViewTotal(view) + QtyOf(e)
           /\ \A k \in 1 .. Len(view), e \in Level :
                 ViewTotal(ReplaceAt(view, k, e)) = ViewTotal(view) - QtyOf(view[k]) + QtyOf(e)
           /\ \A e \in Level : ViewTotal(Append(view, e)) = ViewTotal(view) + QtyOf(e)
           /\ Len(view) # 0 => ViewTotal(Front(view)) = ViewTotal(view) - QtyOf(Last(view))
<1> DEFINE n == Len(view)
<1>0. n \in Nat /\ \A i \in 1 .. n : view[i] \in Level /\ QtyOf(view[i]) \in Nat
  BY LevelsOfView
<1>1. ASSUME NEW e \in Level
      PROVE  /\ ViewTotal(view) \in Int
             /\ ViewTotal(Append(view, e)) = ViewTotal(view) + QtyOf(e)
  <2>1. /\ Append(view, e) \in Seq(Level) /\ Len(Append(view, e)) = n + 1
        /\ \A i \in 1 .. n : Append(view, e)[i] = view[i]
        /\ Append(view, e)[n + 1] = e
    BY AppendProperties
  <2> DEFINE r == Append(view, e)
             k == n + 1
  <2>2. \A j \in 1 .. n : r[IF j < k THEN j ELSE j + 1] = view[j] BY <1>0, <2>1
  <2>3. k \in 1 .. n + 1 /\ r \in Seq(Level) /\ Len(r) = n + 1 /\ r[k] = e BY <1>0, <2>1
  <2> HIDE DEF r, k
  <2>4. ViewTotal(view) \in Int /\ ViewTotal(r) = ViewTotal(view) + QtyOf(r[k])
    BY <2>2, <2>3, TotalOfOneMore
  <2> QED BY <2>3, <2>4 DEF r
<1>2. ViewTotal(view) \in Int
  <2>1. <<0, 0>> \in Level BY DEF Level
  <2> QED BY <1>1, <2>1
<1>3. ASSUME NEW k \in 1 .. n
      PROVE  /\ ViewTotal(RemoveAt(view, k)) \in Int
             /\ ViewTotal(view) = ViewTotal(RemoveAt(view, k)) + QtyOf(view[k])
  <2> DEFINE q == RemoveAt(view, k)
  <2>1. /\ q \in Seq(Level) /\ Len(q) = n - 1
        /\ \A j \in 1 .. n - 1 : q[j] = IF j < k THEN view[j] ELSE view[j + 1]
    BY RemoveAtProperties
  <2> HIDE DEF q
  <2>2. k \in 1 .. Len(q) + 1 /\ n = Len(q) + 1 BY <1>0, <2>1
  <2>3. \A j \in 1 .. Len(q) : view[IF j < k THEN j ELSE j + 1] = q[j] BY <2>1
  <2>4. ViewTotal(q) \in Int /\ ViewTotal(view) = ViewTotal(q) + QtyOf(view[k])
    BY <2>1, <2>2, <2>3, TotalOfOneMore
  <2> QED BY <2>4 DEF q
<1>4. ASSUME NEW k \in 1 .. n + 1, NEW e \in Level
      PROVE  ViewTotal(InsertAt(view, k, e)) = ViewTotal(view) + QtyOf(e)
  <2> DEFINE r == InsertAt(view, k, e)
  <2>1. /\ r \in Seq(Level) /\ Len(r) = n + 1
        /\ \A j \in 1 .. n + 1 :
              r[j] = IF j < k THEN view[j] ELSE IF j = k THEN e ELSE view[j - 1]
    <3>1. k \in 1 .. Len(view) + 1 OBVIOUS
    <3>2. Inserted(r, view, k, e, Level) BY <3>1, InsertAtProperties
    <3> HIDE DEF r
    <3> QED BY <3>2 DEF Inserted
  <2> HIDE DEF r
  <2>2. \A j \in 1 .. n : r[IF j < k THEN j ELSE j + 1] = view[j]
    <3> SUFFICES ASSUME NEW j \in 1 .. n PROVE r[IF j < k THEN j ELSE j + 1] = view[j]
      OBVIOUS
    <3>1. CASE j < k BY <1>0, <2>1, <3>1
    <3>2. CASE ~(j < k)
      <4>1. j + 1 \in 1 .. n + 1 /\ ~(j + 1 < k) /\ j + 1 # k /\ (j + 1) - 1 = j
        BY <1>0, <3>2
      <4> QED BY <2>1, <3>2, <4>1
    <3> QED BY <3>1, <3>2
  <2>3. r[k] = e BY <1>0, <2>1
  <2>4. ViewTotal(r) = ViewTotal(view) + QtyOf(r[k]) BY <2>1, <2>2, TotalOfOneMore
  <2> QED BY <2>3, <2>4 DEF r
<1>5. ASSUME NEW k \in 1 .. n, NEW e \in Level
      PROVE  ViewTotal(ReplaceAt(view, k, e)) = ViewTotal(view) - QtyOf(view[k]) + QtyOf(e)
  <2> DEFINE q == RemoveAt(view, k)
             r == ReplaceAt(view, k, e)
  <2>1. /\ q \in Seq(Level) /\ Len(q) = n - 1
        /\ \A j \in 1 .. n - 1 : q[j] = IF j < k THEN view[j] ELSE view[j + 1]
    BY RemoveAtProperties
  <2>2. /\ r \in Seq(Level) /\ Len(r) = n
        /\ \A j \in 1 .. n : r[j] = IF j = k THEN e ELSE view[j]
    BY ExceptSeq DEF ReplaceAt
  <2> HIDE DEF q, r
  <2>3. k \in 1 .. Len(q) + 1 /\ Len(r) = Len(q) + 1 BY <1>0, <2>1, <2>2
  <2>4. \A j \in 1 .. Len(q) : r[IF j < k THEN j ELSE j + 1] = q[j]
    <3> SUFFICES ASSUME NEW j \in 1 .. n - 1 PROVE r[IF j < k THEN j ELSE j + 1] = q[j]
      BY <2>1
    <3>1. j \in 1 .. n /\ j + 1 \in 1 .. n BY <1>0
    <3> QED BY <2>1, <2>2, <3>1
  <2>5. ViewTotal(r) = ViewTotal(q) + QtyOf(r[k]) BY <2>1, <2>2, <2>3, <2>4, TotalOfOneMore
  <2>6. r[k] = e BY <2>2
  <2>7. ViewTotal(q) \in Int /\ ViewTotal(view) = ViewTotal(q) + QtyOf(view[k])
    BY <1>3 DEF q
  <2>8. QtyOf(view[k]) \in Nat BY <1>0
  <2>9. ViewTotal(q) = ViewTotal(view) - QtyOf(view[k]) BY <1>2, <2>7, <2>8
  <2> QED BY <2>5, <2>6, <2>9 DEF r
<1>6. ASSUME n # 0
      PROVE  ViewTotal(Front(view)) = ViewTotal(view) - QtyOf(Last(view))
  <2> DEFINE q == Front(view)
  <2>1. /\ q \in Seq(Level) /\ Len(q) = n - 1 /\ \A j \in 1 .. n - 1 : q[j] = view[j]
    BY <1>6, FrontOfSeq
  <2> HIDE DEF q
  <2>2. n \in 1 .. Len(q) + 1 /\ n = Len(q) + 1 BY <1>0, <1>6, <2>1
  <2>3. \A j \in 1 .. Len(q) : view[IF j < n THEN j ELSE j + 1] = q[j] BY <2>1, <2>2
  <2>4. ViewTotal(q) \in Int /\ ViewTotal(view) = ViewTotal(q) + QtyOf(view[n])
    BY <2>1, <2>2, <2>3, TotalOfOneMore
  <2>5. QtyOf(view[n]) \in Nat BY <1>0, <2>2
  <2>6. ViewTotal(q) = ViewTotal(view) - QtyOf(view[n]) BY <1>2, <2>4, <2>5
  <2> QED BY <2>6 DEF q, Last
<1>7. \A k \in 1 .. n : ViewTotal(RemoveAt(view, k)) = ViewTotal(view) - QtyOf(view[k])
  BY <1>0, <1>2, <1>3
<1> QED BY <1>1, <1>2, <1>4, <1>5, <1>6, <1>7

-----------------------------------------------------------------------------
(* What a reader makes of deltas.                                          *)

Readers ==
    [ofi : Int, levels : UNION {[D -> Nat] : D \in SUBSET Int}, inView : SUBSET Int,
     right : BOOLEAN]

\* A delta of the other side is none of the reader's business.
Hears(s, r, d) == IF d.side = s THEN Read(r, d) ELSE r

\* A reader stays a reader.
LEMMA ReaderType ==
    ASSUME NEW s, NEW r \in Readers, NEW d \in LevelDeltaType
    PROVE  Hears(s, r, d) \in Readers
<1>1. /\ r.ofi \in Int /\ r.inView \in SUBSET Int /\ r.right \in BOOLEAN
      /\ r.levels \in UNION {[D -> Nat] : D \in SUBSET Int}
  BY DEF Readers
<1>2. /\ d.price \in Int /\ d.newQty \in Nat /\ d.deltaQty \in Int
      /\ d.wasInView \in BOOLEAN /\ d.inOfiView \in BOOLEAN
  BY DEF LevelDeltaType
<1>3. Patched(r.levels, d.price, d.newQty) \in UNION {[D -> Nat] : D \in SUBSET Int}
  <2>1. PICK D \in SUBSET Int : r.levels \in [D -> Nat] BY <1>1
  <2> DEFINE p == Patched(r.levels, d.price, d.newQty)
  <2>2. CASE d.newQty = 0
    <3>1. p = [x \in D \ {d.price} |-> r.levels[x]] BY <2>1, <2>2 DEF Patched, Restrict
    <3>2. p \in [D \ {d.price} -> Nat] BY <2>1, <3>1
    <3>3. D \ {d.price} \in SUBSET Int BY <2>1
    <3> HIDE DEF p
    <3> QED BY <3>2, <3>3 DEF p
  <2>3. CASE d.newQty # 0
    <3>1. p = [x \in D \cup {d.price} |-> IF x = d.price THEN d.newQty ELSE r.levels[x]]
      BY <2>1, <2>3 DEF Patched
    <3>2. p \in [D \cup {d.price} -> Nat] BY <1>2, <2>1, <3>1
    <3>3. D \cup {d.price} \in SUBSET Int BY <1>2, <2>1
    <3> HIDE DEF p
    <3> QED BY <3>2, <3>3 DEF p
  <2> QED BY <2>2, <2>3
<1>4. Read(r, d) \in Readers
  <2>1. r.ofi + (IF d.wasInView \/ d.inOfiView THEN d.deltaQty ELSE 0) \in Int BY <1>1, <1>2
  <2>2. (IF d.kind = Maintenance THEN r.levels ELSE Patched(r.levels, d.price, d.newQty))
           \in UNION {[D -> Nat] : D \in SUBSET Int}
    BY <1>1, <1>3
  <2>3. (IF d.inOfiView THEN r.inView \cup {d.price} ELSE r.inView \ {d.price}) \in SUBSET Int
    BY <1>1, <1>2
  <2>4. (r.right /\ d.wasInView = (d.price \in r.inView)) \in BOOLEAN OBVIOUS
  <2> QED BY <2>1, <2>2, <2>3, <2>4 DEF Read, Readers
<1> QED BY <1>4 DEF Hears

\* What a reader knows after each delta.
Learning(h, s, reader, q) ==
    /\ h \in [0 .. Len(q) -> Readers]
    /\ h[0] = reader /\ \A i \in 1 .. Len(q) : h[i] = Hears(s, h[i - 1], q[i])

\* What is heard is the last of what has been heard delta by delta.
LEMMA HeardUnfolds ==
    ASSUME NEW s, NEW reader \in Readers, NEW q \in Seq(LevelDeltaType)
    PROVE  \E h : Learning(h, s, reader, q) /\ Heard(s, reader, q) = h[Len(q)]
<1> DEFINE n == Len(q)
           Step == [i \in 1 .. n |-> [r \in Readers |-> Hears(s, r, q[i])]]
           Body(F) == [t \in SUBSET (1 .. n) |->
                         IF t = {} THEN reader ELSE Hears(s, F[t \ {Max(t)}], q[Max(t)])]
           Chosen == CHOOSE F : F = Body(F)
<1>0. n \in Nat /\ DOMAIN q = 1 .. n /\ \A i \in 1 .. n : q[i] \in LevelDeltaType
  BY LenProperties, ElementOfSeq
<1>1. Heard(s, reader, q) = Chosen[1 .. n]
  BY <1>0 DEF Heard, FoldLeft, MapThenFoldSet, Hears
<1>2. Step \in [1 .. n -> [Readers -> Readers]]
  BY <1>0, ReaderType
<1>3. PICK F \in [SUBSET (1 .. n) -> Readers] : IsIteration(F, n, reader, Step)
  <2> HIDE DEF Step
  <2> QED BY <1>0, <1>2, IterationExists
<1>4. F = Body(F)
  <2>1. ASSUME NEW t \in SUBSET (1 .. n), t # {}
        PROVE  Step[Max(t)][F[t \ {Max(t)}]] = Hears(s, F[t \ {Max(t)}], q[Max(t)])
    <3>1. Max(t) \in 1 .. n BY <1>0, <2>1, MaxOfInterval
    <3>2. F[t \ {Max(t)}] \in Readers BY <1>3
    <3> QED BY <3>1, <3>2
  <2> QED BY <1>3, <2>1 DEF IsIteration
<1>5. Chosen = Body(Chosen)
  <2> HIDE DEF Body
  <2> QED BY <1>4
<1> HIDE DEF Chosen
<1>6. \A t \in SUBSET (1 .. n) :
         Chosen[t] = IF t = {} THEN reader ELSE Hears(s, Chosen[t \ {Max(t)}], q[Max(t)])
  <2> DEFINE rhs(t) == IF t = {} THEN reader ELSE Hears(s, Chosen[t \ {Max(t)}], q[Max(t)])
  <2>1. Chosen = [t \in SUBSET (1 .. n) |-> rhs(t)] BY <1>5
  <2> HIDE DEF rhs
  <2>2. \A t \in SUBSET (1 .. n) : Chosen[t] = rhs(t) BY <2>1
  <2> QED BY <2>2 DEF rhs
<1> DEFINE h == [i \in 0 .. n |-> Chosen[1 .. i]]
<1>7. h[0] = reader
  <2>1. 1 .. 0 = {} /\ 1 .. 0 \in SUBSET (1 .. n) /\ 0 \in 0 .. n BY <1>0
  <2> QED BY <1>6, <2>1
<1>8. ASSUME NEW i \in 1 .. n PROVE h[i] = Hears(s, h[i - 1], q[i])
  <2>1. 1 .. i \in SUBSET (1 .. n) /\ i \in 1 .. i /\ (1 .. i) \ {i} = 1 .. i - 1 BY <1>0
  <2>2. Max(1 .. i) = i
    <3>1. \A j \in 1 .. i : j <= i OBVIOUS
    <3> QED BY <1>0, <2>1, <3>1, MaxOfInterval
  <2>3. i \in 0 .. n /\ i - 1 \in 0 .. n BY <1>0
  <2> QED BY <1>6, <2>1, <2>2, <2>3
<1>9. \A i \in 0 .. n : h[i] \in Readers
  <2> DEFINE T == {i \in 0 .. n : h[i] \in Readers}
  <2> HIDE DEF h
  <2>1. 0 \in T BY <1>0, <1>7
  <2>2. ASSUME NEW m \in 0 .. n, m \in T, m < n PROVE m + 1 \in T
    <3>1. m + 1 \in 1 .. n /\ m + 1 \in 0 .. n /\ (m + 1) - 1 = m BY <1>0, <2>2
    <3>2. h[m + 1] = Hears(s, h[m], q[m + 1]) BY <1>8, <3>1
    <3>3. q[m + 1] \in LevelDeltaType /\ h[m] \in Readers BY <1>0, <2>2, <3>1
    <3> QED BY <3>1, <3>2, <3>3, ReaderType
  <2>3. 0 .. n \subseteq T
    <3> HIDE DEF T
    <3> QED BY <1>0, <2>1, <2>2, InductionUpTo
  <2> QED BY <2>3
<1>10. h[n] = Chosen[1 .. n] BY <1>0
<1>11. h \in [0 .. n -> Readers]
  <2> HIDE DEF Chosen
  <2> QED BY <1>9
<1> HIDE DEF h
<1>12. /\ h[0] = reader /\ \A i \in 1 .. n : h[i] = Hears(s, h[i - 1], q[i])
       /\ Heard(s, reader, q) = h[n]
  BY <1>1, <1>7, <1>8, <1>10
<1> QED BY <1>11, <1>12 DEF Learning

\* From no delta nothing is learnt, and deltas are heard one after the other.
LEMMA HeardProperties ==
    ASSUME NEW s, NEW reader \in Readers
    PROVE  /\ Heard(s, reader, << >>) = reader
           /\ \A q \in Seq(LevelDeltaType) : Heard(s, reader, q) \in Readers
           /\ \A q \in Seq(LevelDeltaType), d \in LevelDeltaType :
                 Heard(s, reader, Append(q, d)) = Hears(s, Heard(s, reader, q), d)
<1>1. Heard(s, reader, << >>) = reader
  <2>1. ASSUME NEW q \in Seq(LevelDeltaType), Len(q) = 0 PROVE Heard(s, reader, q) = reader
    <3>1. PICK h : Learning(h, s, reader, q) /\ Heard(s, reader, q) = h[Len(q)]
      BY HeardUnfolds
    <3> QED BY <2>1, <3>1 DEF Learning
  <2>2. << >> \in Seq(LevelDeltaType) /\ Len(<< >>) = 0 OBVIOUS
  <2> QED BY <2>1, <2>2
<1>2. ASSUME NEW q \in Seq(LevelDeltaType) PROVE Heard(s, reader, q) \in Readers
  <2>1. PICK h : Learning(h, s, reader, q) /\ Heard(s, reader, q) = h[Len(q)]
    BY HeardUnfolds
  <2>2. Len(q) \in 0 .. Len(q) BY LenProperties
  <2> QED BY <2>1, <2>2 DEF Learning
<1>3. ASSUME NEW q \in Seq(LevelDeltaType), NEW d \in LevelDeltaType
      PROVE  Heard(s, reader, Append(q, d)) = Hears(s, Heard(s, reader, q), d)
  <2> DEFINE n == Len(q)
             r == Append(q, d)
  <2>0. /\ n \in Nat /\ r \in Seq(LevelDeltaType) /\ Len(r) = n + 1
        /\ r[n + 1] = d /\ \A i \in 1 .. n : r[i] = q[i]
    BY LenProperties, AppendProperties
  <2>a. PICK g : Learning(g, s, reader, q) /\ Heard(s, reader, q) = g[Len(q)]
    BY HeardUnfolds
  <2>b. PICK h : Learning(h, s, reader, r) /\ Heard(s, reader, r) = h[Len(r)]
    <3> HIDE DEF r
    <3> QED BY <2>0, HeardUnfolds
  <2>1. /\ g \in [0 .. n -> Readers]
        /\ g[0] = reader /\ \A i \in 1 .. n : g[i] = Hears(s, g[i - 1], q[i])
        /\ Heard(s, reader, q) = g[n]
    BY <2>a DEF Learning
  <2> HIDE DEF n, r
  <2>2. /\ h \in [0 .. n + 1 -> Readers]
        /\ h[0] = reader /\ \A i \in 1 .. n + 1 : h[i] = Hears(s, h[i - 1], r[i])
        /\ Heard(s, reader, r) = h[n + 1]
    BY <2>b, <2>0 DEF Learning
  <2> DEFINE T == {i \in 0 .. n : h[i] = g[i]}
  <2>3. 0 \in T BY <2>0, <2>1, <2>2
  <2>4. ASSUME NEW m \in 0 .. n, m \in T, m < n PROVE m + 1 \in T
    <3>1. m + 1 \in 1 .. n /\ m + 1 \in 1 .. n + 1 /\ (m + 1) - 1 = m BY <2>0, <2>4
    <3>2. g[m + 1] = Hears(s, g[m], q[m + 1]) BY <2>1, <3>1
    <3>3. h[m + 1] = Hears(s, h[m], r[m + 1]) BY <2>2, <3>1
    <3>4. h[m] = g[m] /\ r[m + 1] = q[m + 1] BY <2>0, <2>4, <3>1
    <3>5. m + 1 \in 0 .. n BY <2>0, <2>4
    <3> QED BY <3>2, <3>3, <3>4, <3>5
  <2>5. 0 .. n \subseteq T
    <3> HIDE DEF T
    <3> QED BY <2>0, <2>3, <2>4, InductionUpTo
  <2>6. h[n] = g[n]
    <3>1. n \in 0 .. n BY <2>0
    <3> QED BY <2>5, <3>1
  <2>7. h[n + 1] = Hears(s, h[n], r[n + 1])
    <3>1. n + 1 \in 1 .. n + 1 /\ (n + 1) - 1 = n BY <2>0
    <3> QED BY <2>2, <3>1
  <2> QED BY <2>0, <2>1, <2>2, <2>6, <2>7 DEF r
<1> QED BY <1>1, <1>2, <1>3

\* The last conjunct, for one message.
LEMMA HeardAppend ==
    ASSUME NEW s, NEW reader \in Readers, NEW q \in Seq(LevelDeltaType), NEW d \in LevelDeltaType
    PROVE  Heard(s, reader, Append(q, d)) = Hears(s, Heard(s, reader, q), d)
BY HeardProperties

-----------------------------------------------------------------------------
(* A change of the view, and what it says of itself.                       *)

\* The prices in a view, by its set of levels.
LEMMA PricesOfView ==
    ASSUME NEW view \in Seq(Level)
    PROVE  /\ PricesIn(view) = {PriceOf(e) : e \in ToSet(view)}
           /\ PricesIn(view) \subseteq Int
           /\ \A p : InView(view, p) <=> p \in PricesIn(view)
<1>1. DOMAIN view = 1 .. Len(view) /\ \A i \in 1 .. Len(view) : PriceOf(view[i]) \in Int
  BY LevelsOfView
<1>2. ToSet(view) = {view[i] : i \in 1 .. Len(view)} BY SetOfView
<1> QED BY <1>1, <1>2 DEF PricesIn, InView

IsLevel(L, e) == PriceOf(e) \in DOMAIN L /\ QtyOf(e) = L[PriceOf(e)]

\* The prices of a view with the changed price where it is after the change.
Own(view, after, price) ==
    IF InView(after, price) THEN PricesIn(view) \cup {price} ELSE PricesIn(view) \ {price}

\* With the levels it reports, a change explains what it did to the view, the prices
\* and the total: nothing more than the price itself, or a level that had to go, or one
\* that moved up.
Explained(view, c, L, price, delta) ==
    /\ ViewTotal(c.view) = ViewTotal(view)
          + (IF InView(view, price) \/ InView(c.view, price) THEN delta ELSE 0)
          - QtyOf(c.evicted) + QtyOf(c.replacement)
    /\ \/ /\ c.evicted = NoLevel /\ c.replacement = NoLevel
          /\ PricesIn(c.view) = Own(view, c.view, price)
       \/ /\ c.replacement = NoLevel
          /\ IsLevel(L, c.evicted) /\ PriceOf(c.evicted) \in Own(view, c.view, price)
          /\ PricesIn(c.view) = Own(view, c.view, price) \ {PriceOf(c.evicted)}
       \/ /\ c.evicted = NoLevel
          /\ IsLevel(L, c.replacement) /\ PriceOf(c.replacement) \notin Own(view, c.view, price)
          /\ PricesIn(c.view) = Own(view, c.view, price) \cup {PriceOf(c.replacement)}

\* The level that is not there.
LEMMA NoLevelFacts == NoLevel \in Level /\ PriceOf(NoLevel) = NoPrice /\ QtyOf(NoLevel) = 0
  BY DEF NoLevel, NoPrice, Level, PriceOf, QtyOf

\* The level at a price of the top.
LEMMA LevelAtRank ==
    ASSUME NEW side \in Sides, NEW view \in Seq(Level), NEW L0, NEW d,
           TopOf(side, L0, view, d), NEW price \in Int, InView(view, price)
    PROVE  /\ Rank(side, view, price) \in 1 .. Len(view)
           /\ QtyOf(view[Rank(side, view, price)]) = L0[price]
           /\ L0[price] \in Nat
<1>1. Ordered(side, view) BY DEF TopOf, Ordered
<1>2. /\ Rank(side, view, price) \in 1 .. Len(view)
      /\ PriceOf(view[Rank(side, view, price)]) = price
  BY <1>1, RankFindsPrice
<1>3. DOMAIN view = 1 .. Len(view) /\ \A i \in 1 .. Len(view) : QtyOf(view[i]) \in Nat
  BY LevelsOfView
<1>4. \A i \in DOMAIN view : QtyOf(view[i]) = L0[PriceOf(view[i])] BY DEF TopOf
<1> QED BY <1>2, <1>3, <1>4

\* Erasing takes out the level of the price; what moves up, if anything does, is a
\* level of the ladder that was not in the view, which was full.
LEMMA EraseIsExplained ==
    ASSUME NEW side \in Sides, NEW l, LadderInvariant(l), PositiveLevels(l),
           NEW view \in Seq(Level), NEW L0, DOMAIN L0 \subseteq Int,
           TopOf(side, L0, view, OfiDepth), NEW price \in Int,
           Follows(Levels(l), L0, price, 0), InView(view, price)
    PROVE  Explained(view, EraseFromView(side, l, view, price), Levels(l), price, -L0[price])
<1> DEFINE n == OfiDepth
           L == Levels(l)
           E == ToSet(view)
           rest == RemoveAt(view, Rank(side, view, price))
           p == NextBeyond(side, l, rest)
           new == <<p, get(l, p)>>
           c == EraseFromView(side, l, view, price)
<1>0. n \in Nat \ {0} /\ Len(view) \in Nat /\ \A e \in E : PriceOf(e) \in Int
  BY OrderBookAssumption, LenProperties, SetOfView
<1>1. /\ Len(view) <= n /\ Ordered(side, view)
      /\ \A q \in DOMAIN L0 :
            \/ \E e \in E : PriceOf(e) = q
            \/ Len(view) = n /\ \A e \in E : Better(side, PriceOf(e), q)
  BY TopOfSet
<1>2. /\ rest \in Seq(Level) /\ Len(rest) = Len(view) - 1 /\ Ordered(side, rest)
      /\ ToSet(rest) = {e \in E : PriceOf(e) # price}
  BY <1>1, RemoveFromView
<1>3. DOMAIN L = DOMAIN L0 \ {price} BY DEF Follows
<1>4. PricesIn(rest) = PricesIn(view) \ {price}
  <2>1. PricesIn(rest) = {PriceOf(e) : e \in ToSet(rest)} BY <1>2, PricesOfView
  <2>2. PricesIn(view) = {PriceOf(e) : e \in E} BY PricesOfView
  <2> HIDE DEF rest, E
  <2> QED BY <1>2, <2>1, <2>2
<1>5. /\ ViewTotal(rest) = ViewTotal(view) - L0[price]
      /\ L0[price] \in Nat /\ ViewTotal(view) \in Int
  <2>1. /\ Rank(side, view, price) \in 1 .. Len(view)
        /\ QtyOf(view[Rank(side, view, price)]) = L0[price]
        /\ L0[price] \in Nat
    BY LevelAtRank
  <2> QED BY <2>1, TotalOfChanged
<1>6. /\ c.view = IF p # NoPrice THEN Append(rest, new) ELSE rest
      /\ c.evicted = NoLevel
      /\ c.replacement = IF Len(view) = n /\ Len(c.view) = n THEN Last(c.view) ELSE NoLevel
  BY DEF EraseFromView
<1>7. price \in PricesIn(view) BY PricesOfView
<1>8. CASE p # NoPrice
  <2>1. /\ p \in DOMAIN L /\ \A e \in ToSet(rest) : Better(side, PriceOf(e), p)
        /\ new \in Level /\ PriceOf(new) = p /\ QtyOf(new) = L[p]
        /\ Append(rest, new) \in Seq(Level) /\ Len(Append(rest, new)) = Len(rest) + 1
        /\ ToSet(Append(rest, new)) = ToSet(rest) \cup {new}
    <3> HIDE DEF p, rest, new, L
    <3>1. p = NextBeyond(side, l, rest) BY DEF p
    <3>2. new = <<p, get(l, p)>> BY DEF new
    <3> QED BY <1>2, <1>8, <3>1, <3>2, AppendNext DEF L
  <2> DEFINE wider == Append(rest, new)
  <2>2. p \in DOMAIN L0 /\ p # price /\ p \in Int BY <1>3, <2>1
  <2>3. p \notin PricesIn(rest)
    <3>1. PricesIn(rest) = {PriceOf(e) : e \in ToSet(rest)} BY <1>2, PricesOfView
    <3> HIDE DEF rest, p
    <3> QED BY <2>1, <2>2, <3>1, BetterIsOrder
  <2>4. Len(view) = n
    <3>1. \A e \in E : PriceOf(e) # p
      <4>1. p \notin PricesIn(view) BY <1>4, <2>2, <2>3
      <4>2. PricesIn(view) = {PriceOf(e) : e \in E} BY PricesOfView
      <4> QED BY <4>1, <4>2
    <3> QED BY <1>1, <2>2, <3>1
  <2>5. PricesIn(wider) = PricesIn(rest) \cup {p}
    <3>1. PricesIn(wider) = {PriceOf(e) : e \in ToSet(wider)} BY <2>1, PricesOfView
    <3>2. PricesIn(rest) = {PriceOf(e) : e \in ToSet(rest)} BY <1>2, PricesOfView
    <3> HIDE DEF rest, p, new, wider
    <3> QED BY <2>1, <3>1, <3>2 DEF wider
  <2>6. Last(wider) = new
    <3>1. wider[Len(rest) + 1] = new BY <1>2, AppendProperties
    <3> HIDE DEF rest, new
    <3> QED BY <2>1, <3>1 DEF Last
  <2>7. ViewTotal(wider) = ViewTotal(rest) + L[p]
    <3> HIDE DEF rest, new, p
    <3> QED BY <1>2, <2>1, TotalOfChanged
  <2>8. c.view = wider /\ Len(wider) = n /\ c.replacement = new
    <3>1. c.view = wider BY <1>6, <1>8
    <3>2. Len(wider) = n BY <1>0, <1>2, <2>1, <2>4
    <3> HIDE DEF c, wider, new
    <3> QED BY <1>6, <2>4, <2>6, <3>1, <3>2
  <2>9. ~InView(c.view, price)
    <3>1. price \notin PricesIn(wider) BY <1>4, <2>2, <2>5
    <3> HIDE DEF wider, c
    <3> QED BY <2>1, <2>8, <3>1, PricesOfView DEF wider
  <2> HIDE DEF c, wider, new, p, rest, L
  <2>10. Own(view, c.view, price) = PricesIn(rest) BY <1>4, <2>9 DEF Own
  <2>11. ViewTotal(c.view) = ViewTotal(view) + (-L0[price]) - QtyOf(c.evicted)
                                + QtyOf(c.replacement)
    BY <1>5, <1>6, <2>1, <2>7, <2>8, NoLevelFacts
  <2> QED BY <1>6, <2>1, <2>3, <2>5, <2>8, <2>10, <2>11 DEF Explained, IsLevel, c, L
<1>9. CASE p = NoPrice
  <2>1. c.view = rest BY <1>6, <1>9
  <2> HIDE DEF c, rest, p, L
  <2>2. c.replacement = NoLevel
    <3>1. Len(c.view) # Len(view) BY <1>0, <1>2, <2>1
    <3> QED BY <1>6, <3>1
  <2>3. ~InView(c.view, price) BY <1>2, <1>4, <2>1, PricesOfView
  <2>4. Own(view, c.view, price) = PricesIn(rest) BY <1>4, <2>3 DEF Own
  <2>5. ViewTotal(c.view) = ViewTotal(view) + (-L0[price]) - QtyOf(c.evicted)
                                + QtyOf(c.replacement)
    BY <1>5, <1>6, <2>1, <2>2, NoLevelFacts
  <2> QED BY <1>6, <2>1, <2>2, <2>4, <2>5 DEF Explained, c, L
<1> QED BY <1>8, <1>9

\* A changed quantity is the difference.
LEMMA AmendIsExplained ==
    ASSUME NEW side \in Sides, NEW view \in Seq(Level), NEW L, NEW L0, NEW d,
           TopOf(side, L0, view, d), NEW price \in Int, NEW qty \in Nat,
           InView(view, price), NEW c,
           c = [view |-> ReplaceAt(view, Rank(side, view, price), <<price, qty>>),
                evicted |-> NoLevel, replacement |-> NoLevel]
    PROVE  Explained(view, c, L, price, qty - L0[price])
<1> DEFINE new == <<price, qty>>
           k == Rank(side, view, price)
           amended == ReplaceAt(view, k, new)
<1>1. Ordered(side, view) BY DEF TopOf, Ordered
<1>2. /\ amended \in Seq(Level)
      /\ ToSet(amended) = {e \in ToSet(view) : PriceOf(e) # price} \cup {new}
  BY <1>1, AmendView
<1>3. new \in Level /\ PriceOf(new) = price /\ QtyOf(new) = qty BY DEF Level, PriceOf, QtyOf
<1>4. k \in 1 .. Len(view) /\ QtyOf(view[k]) = L0[price] /\ L0[price] \in Nat
  BY LevelAtRank
<1> HIDE DEF new, k
<1>5. /\ ViewTotal(amended) = ViewTotal(view) - L0[price] + qty
      /\ ViewTotal(view) \in Int
  BY <1>3, <1>4, TotalOfChanged
<1>6. PricesIn(amended) = PricesIn(view)
  <2>1. PricesIn(amended) = {PriceOf(e) : e \in ToSet(amended)} BY <1>2, PricesOfView
  <2>2. PricesIn(view) = {PriceOf(e) : e \in ToSet(view)} BY PricesOfView
  <2>3. price \in PricesIn(view) BY PricesOfView
  <2> HIDE DEF amended
  <2> QED BY <1>2, <1>3, <2>1, <2>2, <2>3
<1>7. c.view = amended /\ c.evicted = NoLevel /\ c.replacement = NoLevel
  BY DEF amended, k, new
<1> HIDE DEF amended
<1>8. InView(c.view, price) /\ price \in PricesIn(view) BY <1>2, <1>6, <1>7, PricesOfView
<1>9. Own(view, c.view, price) = PricesIn(view) BY <1>8 DEF Own
<1>10. ViewTotal(c.view) = ViewTotal(view) + (qty - L0[price]) - QtyOf(c.evicted)
                              + QtyOf(c.replacement)
  BY <1>4, <1>5, <1>7, NoLevelFacts
<1> QED BY <1>6, <1>7, <1>8, <1>9, <1>10 DEF Explained

\* An inserted level is new on the ladder; the one it pushes out was the worst.
LEMMA InsertIsExplained ==
    ASSUME NEW side \in Sides, NEW view \in Seq(Level), NEW L, NEW L0, DOMAIN L0 \subseteq Int,
           TopOf(side, L0, view, OfiDepth), NEW price \in Int, NEW qty \in Nat \ {0},
           Follows(L, L0, price, qty), ~InView(view, price),
           Len(view) < OfiDepth \/ Better(side, price, PriceOf(Last(view)))
    PROVE  /\ price \notin DOMAIN L0
           /\ Explained(view, InsertIntoView(side, view, price, qty), L, price, qty)
<1> DEFINE n == OfiDepth
           E == ToSet(view)
           new == <<price, qty>>
           wider == InsertAt(view, Rank(side, view, price), new)
           c == InsertIntoView(side, view, price, qty)
<1>0. n \in Nat \ {0} /\ Len(view) \in Nat /\ \A e \in E : PriceOf(e) \in Int
  BY OrderBookAssumption, LenProperties, SetOfView
<1>1. /\ Len(view) <= n /\ Ordered(side, view)
      /\ \A e \in E : PriceOf(e) \in DOMAIN L0 /\ QtyOf(e) = L0[PriceOf(e)]
      /\ \A q \in DOMAIN L0 :
            \/ \E e \in E : PriceOf(e) = q
            \/ Len(view) = n /\ \A e \in E : Better(side, PriceOf(e), q)
  BY TopOfSet
<1>2. /\ wider \in Seq(Level) /\ Len(wider) = Len(view) + 1 /\ Ordered(side, wider)
      /\ ToSet(wider) = E \cup {new}
  BY <1>1, InsertIntoOrdered
<1>3. new \in Level /\ PriceOf(new) = price /\ QtyOf(new) = qty BY DEF Level, PriceOf, QtyOf
<1>4. ViewTotal(wider) = ViewTotal(view) + qty /\ ViewTotal(view) \in Int
  <2>1. Rank(side, view, price) \in 1 .. Len(view) + 1 BY <1>1, RankSplitsView
  <2> HIDE DEF new
  <2> QED BY <1>3, <2>1, TotalOfChanged
<1>5. price \notin PricesIn(view) /\ \A e \in E : PriceOf(e) # price
  BY PricesOfView, SetOfView
<1>6. PricesIn(wider) = PricesIn(view) \cup {price}
  <2>1. PricesIn(wider) = {PriceOf(e) : e \in ToSet(wider)} BY <1>2, PricesOfView
  <2>2. PricesIn(view) = {PriceOf(e) : e \in E} BY PricesOfView
  <2> HIDE DEF wider, new, E
  <2> QED BY <1>2, <1>3, <2>1, <2>2
<1>7. Len(view) # 0 => Last(view) \in E
  <2> SUFFICES ASSUME Len(view) # 0 PROVE Last(view) \in E
    OBVIOUS
  <2>1. ToSet(view) = ToSet(Front(view)) \cup {Last(view)} BY <1>1, FrontOfView
  <2> QED BY <2>1
<1>8. price \notin DOMAIN L0
  <2> SUFFICES ASSUME price \in DOMAIN L0 PROVE FALSE
    OBVIOUS
  <2>1. Len(view) = n /\ \A e \in E : Better(side, PriceOf(e), price) BY <1>1, <1>5
  <2>2. Last(view) \in E /\ Better(side, price, PriceOf(Last(view))) BY <1>0, <1>7, <2>1
  <2> QED BY <1>0, <2>1, <2>2, BetterIsOrder
<1>9. \A e \in ToSet(wider) : IsLevel(L, e)
  <2>1. /\ DOMAIN L = DOMAIN L0 \cup {price} /\ L[price] = qty
        /\ \A r \in DOMAIN L0 : r # price => L[r] = L0[r]
    BY DEF Follows
  <2> HIDE DEF wider, new, E
  <2> QED BY <1>1, <1>2, <1>3, <1>5, <2>1 DEF IsLevel
<1>10. /\ c.view = IF Len(wider) > n THEN Front(wider) ELSE wider
       /\ c.evicted = IF Len(wider) > n THEN Last(wider) ELSE NoLevel
       /\ c.replacement = NoLevel
  BY DEF InsertIntoView
<1> HIDE DEF E, new, wider, c
<1>11. CASE Len(wider) > n
  <2>1. Len(view) = n /\ Len(wider) # 0 BY <1>0, <1>1, <1>2, <1>11 DEF n
  <2>2. /\ Front(wider) \in Seq(Level)
        /\ Last(wider) \in Level
        /\ ToSet(wider) = ToSet(Front(wider)) \cup {Last(wider)}
        /\ \A e \in ToSet(Front(wider)) : Better(side, PriceOf(e), PriceOf(Last(wider)))
    BY <1>2, <2>1, FrontOfView
  <2>3. PriceOf(Last(wider)) \in Int /\ QtyOf(Last(wider)) \in Nat
    BY <2>2 DEF Level, PriceOf, QtyOf
  <2>4. PriceOf(Last(wider)) # price
    <3> SUFFICES ASSUME PriceOf(Last(wider)) = price PROVE FALSE
      OBVIOUS
    <3>1. Last(view) \in E /\ Better(side, price, PriceOf(Last(view)))
      BY <1>0, <1>7, <2>1 DEF n
    <3>2. Last(view) \in ToSet(Front(wider)) BY <1>2, <1>5, <2>2, <3>1
    <3>3. PriceOf(Last(view)) \in Int BY <1>0, <3>1
    <3> QED BY <2>2, <3>1, <3>2, <3>3, BetterIsOrder
  <2>5. PricesIn(Front(wider)) = PricesIn(wider) \ {PriceOf(Last(wider))}
    <3>1. PricesIn(wider) = {PriceOf(e) : e \in ToSet(wider)} BY <1>2, PricesOfView
    <3>2. PricesIn(Front(wider)) = {PriceOf(e) : e \in ToSet(Front(wider))}
      BY <2>2, PricesOfView
    <3>3. \A e \in ToSet(Front(wider)) : PriceOf(e) # PriceOf(Last(wider))
      BY <2>2, <2>3, BetterIsOrder
    <3> QED BY <2>2, <3>1, <3>2, <3>3
  <2>6. ViewTotal(Front(wider)) = ViewTotal(wider) - QtyOf(Last(wider))
    BY <1>2, <2>1, TotalOfChanged
  <2>7. c.view = Front(wider) /\ c.evicted = Last(wider) /\ c.replacement = NoLevel
    BY <1>10, <1>11
  <2>8. PriceOf(Last(wider)) \in PricesIn(wider) /\ IsLevel(L, Last(wider))
    <3>1. PricesIn(wider) = {PriceOf(e) : e \in ToSet(wider)} BY <1>2, PricesOfView
    <3> QED BY <1>9, <2>2, <3>1
  <2>9. InView(c.view, price) BY <1>6, <2>2, <2>4, <2>5, <2>7, PricesOfView
  <2>10. Own(view, c.view, price) = PricesIn(wider) BY <1>6, <2>9 DEF Own
  <2>11. ViewTotal(c.view) = ViewTotal(view) + qty - QtyOf(c.evicted) + QtyOf(c.replacement)
    BY <1>4, <2>3, <2>6, <2>7, NoLevelFacts
  <2> QED BY <1>8, <2>5, <2>7, <2>8, <2>9, <2>10, <2>11 DEF Explained, c
<1>12. CASE ~(Len(wider) > n)
  <2>1. c.view = wider /\ c.evicted = NoLevel /\ c.replacement = NoLevel BY <1>10, <1>12
  <2>2. InView(c.view, price) BY <1>2, <1>6, <2>1, PricesOfView
  <2>3. Own(view, c.view, price) = PricesIn(wider) BY <1>6, <2>2 DEF Own
  <2>4. ViewTotal(c.view) = ViewTotal(view) + qty - QtyOf(c.evicted) + QtyOf(c.replacement)
    BY <1>4, <2>1, NoLevelFacts
  <2> QED BY <1>8, <2>1, <2>2, <2>3, <2>4 DEF Explained, c
<1> QED BY <1>11, <1>12

\* The quantity a price of a message had on the ladder, 0 if it was not there.
Before(L0, price) == IF price \in DOMAIN L0 THEN L0[price] ELSE 0

\* Whatever a change does to the view, it explains.
LEMMA UpdateIsExplained ==
    ASSUME NEW side \in Sides, NEW l, LadderInvariant(l), PositiveLevels(l),
           NEW view \in Seq(Level), NEW L0, DOMAIN L0 \subseteq Int,
           TopOf(side, L0, view, OfiDepth), NEW price \in Int, NEW qty \in Nat,
           Follows(Levels(l), L0, price, qty)
    PROVE  Explained(view, updateOfiView(side, l, view, price, qty), Levels(l), price,
                     qty - Before(L0, price))
<1> DEFINE c == updateOfiView(side, l, view, price, qty)
           amended == ReplaceAt(view, Rank(side, view, price), <<price, qty>>)
           idle == [view |-> view, evicted |-> NoLevel, replacement |-> NoLevel]
           enters == \/ Len(view) < OfiDepth
                     \/ view # << >> /\ Better(side, price, PriceOf(Last(view)))
           L == Levels(l)
<1>0. InView(view, price) => price \in DOMAIN L0 /\ L0[price] \in Nat
  <2> SUFFICES ASSUME InView(view, price) PROVE price \in DOMAIN L0 /\ L0[price] \in Nat
    OBVIOUS
  <2>1. L0[price] \in Nat BY LevelAtRank
  <2> QED BY <2>1 DEF TopOf, InView
<1>1. CASE InView(view, price) /\ qty = 0
  <2>1. c = EraseFromView(side, l, view, price) BY <1>1 DEF updateOfiView
  <2>2. Follows(Levels(l), L0, price, 0) BY <1>1
  <2>3. Explained(view, EraseFromView(side, l, view, price), Levels(l), price, -L0[price])
    BY <1>1, <2>2, EraseIsExplained
  <2>4. qty - Before(L0, price) = -L0[price] BY <1>0, <1>1 DEF Before
  <2> HIDE DEF c
  <2>5. Explained(view, c, Levels(l), price, qty - Before(L0, price)) BY <2>1, <2>3, <2>4
  <2> QED BY <2>5 DEF c
<1>2. CASE InView(view, price) /\ qty > 0
  <2>0. qty # 0 BY <1>2
  <2>1. c = [view |-> amended, evicted |-> NoLevel, replacement |-> NoLevel]
    BY <1>2, <2>0 DEF updateOfiView
  <2> HIDE DEF c
  <2>2. Explained(view, c, L, price, qty - L0[price]) BY <1>2, <2>1, AmendIsExplained
  <2>3. Before(L0, price) = L0[price] BY <1>0, <1>2 DEF Before
  <2>4. Explained(view, c, L, price, qty - Before(L0, price)) BY <2>2, <2>3
  <2> QED BY <2>4 DEF c, L
<1>3. CASE ~InView(view, price) /\ qty > 0 /\ enters
  <2>0. qty # 0 BY <1>3
  <2>1. c = InsertIntoView(side, view, price, qty) BY <1>3 DEF updateOfiView
  <2>2. /\ price \notin DOMAIN L0
        /\ Explained(view, InsertIntoView(side, view, price, qty), Levels(l), price, qty)
    BY <1>3, <2>0, InsertIsExplained
  <2>3. qty - Before(L0, price) = qty BY <2>2 DEF Before
  <2> HIDE DEF c
  <2>4. Explained(view, c, Levels(l), price, qty - Before(L0, price)) BY <2>1, <2>2, <2>3
  <2> QED BY <2>4 DEF c
<1>4. CASE ~InView(view, price) /\ ~(qty > 0 /\ enters)
  <2>1. c = idle BY <1>4 DEF updateOfiView
  <2> HIDE DEF c
  <2>2. c.view = view /\ c.evicted = NoLevel /\ c.replacement = NoLevel BY <2>1
  <2>3. price \notin PricesIn(view) BY <1>4, PricesOfView
  <2>4. Own(view, c.view, price) = PricesIn(view) BY <1>4, <2>2, <2>3 DEF Own
  <2>5. ViewTotal(view) = ViewTotal(view) + 0 - QtyOf(NoLevel) + QtyOf(NoLevel)
    BY NoLevelFacts, TotalOfChanged
  <2>6. Explained(view, c, L, price, qty - Before(L0, price))
    BY <1>4, <2>2, <2>4, <2>5 DEF Explained
  <2> QED BY <2>6 DEF c, L
<1>5. qty = 0 \/ qty > 0 OBVIOUS
<1> QED BY <1>1, <1>2, <1>3, <1>4, <1>5

-----------------------------------------------------------------------------
(* The deltas of a change, read.                                           *)

LiveKinds == {Genuine, Backfill}

IsFunction(f) == f = [x \in DOMAIN f |-> f[x]]

\* The levels of a ladder can be read.
LEMMA LevelsOfReader ==
    ASSUME NEW l, LadderInvariant(l)
    PROVE  /\ IsFunction(Levels(l))
           /\ Levels(l) \in UNION {[D -> Nat] : D \in SUBSET Int}
<1> DEFINE L == Levels(l)
<1>1. L = [p \in DOMAIN L |-> L[p]] BY DEF Levels
<1>2. DOMAIN L \in SUBSET Int /\ \A p \in DOMAIN L : L[p] \in Nat BY LevelsAreInt
<1> HIDE DEF L
<1>3. L \in [DOMAIN L -> Nat] BY <1>1, <1>2
<1> QED BY <1>1, <1>2, <1>3 DEF IsFunction, L

\* Patching at one price gives the levels that follow.
LEMMA PatchedFollows ==
    ASSUME NEW L, NEW L0, IsFunction(L), IsFunction(L0), NEW p, NEW q, Follows(L, L0, p, q)
    PROVE  Patched(L0, p, q) = L
<1>1. CASE q = 0
  <2>1. DOMAIN L = DOMAIN L0 \ {p} /\ \A r \in DOMAIN L : L[r] = L0[r]
    BY <1>1 DEF Follows
  <2>2. Patched(L0, p, q) = [r \in DOMAIN L0 \ {p} |-> L0[r]]
    BY <1>1 DEF Patched, Restrict
  <2>3. L = [r \in DOMAIN L |-> L0[r]] BY <2>1 DEF IsFunction
  <2> QED BY <2>1, <2>2, <2>3
<1>2. CASE q # 0
  <2>1. /\ DOMAIN L = DOMAIN L0 \cup {p}
        /\ \A r \in DOMAIN L : L[r] = IF r = p THEN q ELSE L0[r]
    BY <1>2 DEF Follows
  <2>2. Patched(L0, p, q) = [r \in DOMAIN L0 \cup {p} |-> IF r = p THEN q ELSE L0[r]]
    BY <1>2 DEF Patched
  <2>3. L = [r \in DOMAIN L |-> IF r = p THEN q ELSE L0[r]] BY <2>1 DEF IsFunction
  <2> QED BY <2>1, <2>2, <2>3
<1> QED BY <1>1, <1>2

\* The delta of the level itself.
LEMMA PrimaryIsRead ==
    ASSUME NEW r, r.right = TRUE, NEW d, d.kind # Maintenance,
           d.wasInView = (d.price \in r.inView)
    PROVE  Hears(d.side, r, d)
              = [ofi |-> r.ofi + (IF d.wasInView \/ d.inOfiView THEN d.deltaQty ELSE 0),
                 levels |-> Patched(r.levels, d.price, d.newQty),
                 inView |-> IF d.inOfiView THEN r.inView \cup {d.price}
                            ELSE r.inView \ {d.price},
                 right |-> TRUE]
<1>1. Hears(d.side, r, d) =
         [ofi |-> r.ofi + (IF d.wasInView \/ d.inOfiView THEN d.deltaQty ELSE 0),
          levels |-> Patched(r.levels, d.price, d.newQty),
          inView |-> IF d.inOfiView THEN r.inView \cup {d.price} ELSE r.inView \ {d.price},
          right |-> r.right /\ d.wasInView = (d.price \in r.inView)]
  BY DEF Hears, Read
<1>2. (r.right /\ d.wasInView = (d.price \in r.inView)) = TRUE OBVIOUS
<1> QED BY <1>1, <1>2

\* A level that had to go, and one that moves up: neither changes the ladder.
LEMMA SecondaryIsRead ==
    ASSUME NEW r, r.right = TRUE, IsFunction(r.levels), NEW d,
           d.price \in DOMAIN r.levels, d.newQty = r.levels[d.price], d.newQty # 0,
           d.wasInView \in BOOLEAN, d.inOfiView = ~d.wasInView,
           d.wasInView = (d.price \in r.inView)
    PROVE  Hears(d.side, r, d)
              = [ofi |-> r.ofi + d.deltaQty, levels |-> r.levels,
                 inView |-> IF d.inOfiView THEN r.inView \cup {d.price}
                            ELSE r.inView \ {d.price},
                 right |-> TRUE]
<1>1. Patched(r.levels, d.price, d.newQty) = r.levels
  <2>1. Follows(r.levels, r.levels, d.price, d.newQty) BY DEF Follows
  <2> QED BY <2>1, PatchedFollows
<1>2. Hears(d.side, r, d) =
         [ofi |-> r.ofi + (IF d.wasInView \/ d.inOfiView THEN d.deltaQty ELSE 0),
          levels |-> IF d.kind = Maintenance THEN r.levels
                     ELSE Patched(r.levels, d.price, d.newQty),
          inView |-> IF d.inOfiView THEN r.inView \cup {d.price} ELSE r.inView \ {d.price},
          right |-> r.right /\ d.wasInView = (d.price \in r.inView)]
  BY DEF Hears, Read
<1>3. (r.right /\ d.wasInView = (d.price \in r.inView)) = TRUE OBVIOUS
<1>4. (IF d.kind = Maintenance THEN r.levels ELSE Patched(r.levels, d.price, d.newQty))
         = r.levels
  BY <1>1
<1>5. r.ofi + (IF d.wasInView \/ d.inOfiView THEN d.deltaQty ELSE 0) = r.ofi + d.deltaQty
  OBVIOUS
<1> QED BY <1>2, <1>3, <1>4, <1>5

\* What a change adds to the deltas.
Added(side, out, price, qty, delta, view, c, kind) ==
    Append(out, PrimaryDelta(side, price, qty, delta, view, c.view, kind))
        \o EvictionDelta(side, c.evicted, kind) \o ReplacementDelta(side, c.replacement, kind)

\* A delta or none is appended.
LEMMA AddedDeltas ==
    ASSUME NEW q \in Seq(LevelDeltaType)
    PROVE  /\ q \o << >> = q
           /\ \A d \in LevelDeltaType : q \o <<d>> = Append(q, d)
  BY ConcatEmptySeq, AppendIsConcat

\* A reader who knows a side: its levels, the prices in its view, and how far the total
\* of the view is from what it was at the start.
Knowing(view, levels, v0) ==
    [ofi |-> ViewTotal(view) - v0, levels |-> levels, inView |-> PricesIn(view), right |-> TRUE]

\* Reading what a change adds, a reader who knew the side knows it again.
LEMMA AddedIsHeard ==
    ASSUME NEW side \in Sides, NEW view \in Seq(Level), NEW L, NEW L0, IsFunction(L),
           IsFunction(L0), DOMAIN L \subseteq Nat \ {0}, \A p \in DOMAIN L : L[p] \in Nat \ {0},
           NEW price \in Int, NEW qty \in Nat, NEW delta \in Int, NEW kind \in LiveKinds,
           Follows(L, L0, price, qty), NEW c, c.view \in Seq(Level),
           c.evicted \in Level, c.replacement \in Level,
           Explained(view, c, L, price, delta),
           NEW start \in Readers, NEW v0 \in Int, NEW out \in Seq(LevelDeltaType),
           Heard(side, start, out) = Knowing(view, L0, v0)
    PROVE  Heard(side, start, Added(side, out, price, qty, delta, view, c, kind))
              = Knowing(c.view, L, v0)
<1> DEFINE primary == PrimaryDelta(side, price, qty, delta, view, c.view, kind)
           x == IF InView(view, price) \/ InView(c.view, price) THEN delta ELSE 0
           o0 == ViewTotal(view) - v0
           o1 == o0 + x
           own == Own(view, c.view, price)
           r0 == [ofi |-> o0, levels |-> L0, inView |-> PricesIn(view), right |-> TRUE]
           r1 == [ofi |-> o1, levels |-> L, inView |-> own, right |-> TRUE]
           gone == LevelDelta(side, PriceOf(c.evicted), QtyOf(c.evicted), -QtyOf(c.evicted),
                              TRUE, FALSE, SecondaryKind(kind))
           up == LevelDelta(side, PriceOf(c.replacement), QtyOf(c.replacement),
                            QtyOf(c.replacement), FALSE, TRUE, SecondaryKind(kind))
           added == Added(side, out, price, qty, delta, view, c, kind)
           goal == Knowing(c.view, L, v0)
<1>0. ViewTotal(view) \in Int /\ ViewTotal(c.view) \in Int /\ x \in Int /\ o1 \in Int
  BY TotalOfChanged
<1>1. kind \in Kinds BY DEF LiveKinds, Kinds
<1>2. primary \in LevelDeltaType
  BY <1>1, DeltasAreTyped
<1>3. Heard(side, start, Append(out, primary)) = r1
  <2>1. Patched(L0, price, qty) = L BY PatchedFollows
  <2>2. Hears(side, r0, primary) = r1
    <3>1. /\ r0.levels = L0 /\ r0.inView = PricesIn(view) /\ r0.right = TRUE
          /\ r0.ofi = o0
      OBVIOUS
    <3>2. /\ primary.price = price /\ primary.newQty = qty /\ primary.deltaQty = delta
          /\ primary.side = side /\ primary.kind # Maintenance
          /\ primary.wasInView = InView(view, price)
          /\ primary.inOfiView = InView(c.view, price)
      BY DEF PrimaryDelta, LevelDelta, LiveKinds, Genuine, Backfill, Maintenance
    <3> HIDE DEF r0, o0, primary
    <3>3. primary.wasInView = (primary.price \in r0.inView)
      <4>1. InView(view, price) \in BOOLEAN BY DEF InView
      <4>2. InView(view, price) <=> price \in PricesIn(view) BY PricesOfView
      <4>3. InView(view, price) = (price \in PricesIn(view)) BY <4>1, <4>2
      <4> QED BY <3>1, <3>2, <4>3
    <3>4. Hears(primary.side, r0, primary) =
            [ofi |-> r0.ofi + (IF primary.wasInView \/ primary.inOfiView
                               THEN primary.deltaQty ELSE 0),
             levels |-> Patched(r0.levels, primary.price, primary.newQty),
             inView |-> IF primary.inOfiView THEN r0.inView \cup {primary.price}
                        ELSE r0.inView \ {primary.price},
             right |-> TRUE]
      BY <3>1, <3>2, <3>3, PrimaryIsRead
    <3>5. Patched(r0.levels, primary.price, primary.newQty) = L BY <2>1, <3>1, <3>2
    <3>6. (IF primary.inOfiView THEN r0.inView \cup {primary.price}
           ELSE r0.inView \ {primary.price}) = own
      BY <3>1, <3>2 DEF Own
    <3>7. r0.ofi + (IF primary.wasInView \/ primary.inOfiView THEN primary.deltaQty ELSE 0)
             = o1
      BY <3>1, <3>2
    <3> HIDE DEF own, o1
    <3> QED BY <3>2, <3>4, <3>5, <3>6, <3>7
  <2>3. Heard(side, start, out) = r0 BY DEF Knowing
  <2> HIDE DEF primary, r1, r0
  <2> QED BY <1>2, <2>2, <2>3, HeardAppend
<1>4. Append(out, primary) \in Seq(LevelDeltaType) BY <1>2
<1>5. ASSUME NEW e \in Level, IsLevel(L, e)
      PROVE  e # NoLevel /\ QtyOf(e) # 0
  <2>1. PriceOf(e) \in DOMAIN L /\ QtyOf(e) = L[PriceOf(e)] BY <1>5 DEF IsLevel
  <2>2. PriceOf(e) # 0 /\ QtyOf(e) # 0 BY <2>1
  <2> QED BY <2>2, NoLevelFacts DEF NoPrice
<1>14. ViewTotal(c.view) = ViewTotal(view) + x - QtyOf(c.evicted) + QtyOf(c.replacement)
  BY DEF Explained
<1>6. \/ /\ c.evicted = NoLevel /\ c.replacement = NoLevel
         /\ PricesIn(c.view) = own
      \/ /\ c.replacement = NoLevel
         /\ IsLevel(L, c.evicted) /\ PriceOf(c.evicted) \in own
         /\ PricesIn(c.view) = own \ {PriceOf(c.evicted)}
      \/ /\ c.evicted = NoLevel
         /\ IsLevel(L, c.replacement) /\ PriceOf(c.replacement) \notin own
         /\ PricesIn(c.view) = own \cup {PriceOf(c.replacement)}
  BY DEF Explained
<1>7. QtyOf(c.evicted) \in Nat /\ QtyOf(c.replacement) \in Nat BY DEF Level, QtyOf
<1>8. ViewTotal(c.view) - v0 = o1 - QtyOf(c.evicted) + QtyOf(c.replacement)
  <2> HIDE DEF x, o1
  <2>1. PICK a \in Int : a = ViewTotal(view) BY <1>0
  <2>2. PICK b \in Int : b = ViewTotal(c.view) BY <1>0
  <2>3. PICK m \in Int : m = x BY <1>0
  <2>4. PICK e \in Int : e = QtyOf(c.evicted) BY <1>7
  <2>5. PICK f \in Int : f = QtyOf(c.replacement) BY <1>7
  <2>6. b = a + m - e + f BY <1>14, <2>1, <2>2, <2>3, <2>4, <2>5
  <2>7. PICK o \in Int : o = o1 BY <1>0
  <2>8. o = a - v0 + m BY <2>1, <2>3, <2>7 DEF o1
  <2>9. b - v0 = o - e + f BY <2>6, <2>8
  <2> QED BY <2>2, <2>4, <2>5, <2>7, <2>9
<1>9. added = (Append(out, primary) \o EvictionDelta(side, c.evicted, kind))
                 \o ReplacementDelta(side, c.replacement, kind)
  BY DEF Added
<1>10. /\ gone \in LevelDeltaType /\ up \in LevelDeltaType
       /\ EvictionDelta(side, c.evicted, kind) = IF c.evicted = NoLevel THEN << >> ELSE <<gone>>
       /\ ReplacementDelta(side, c.replacement, kind)
             = IF c.replacement = NoLevel THEN << >> ELSE <<up>>
  <2>1. SecondaryKind(kind) \in Kinds BY DEF SecondaryKind, Kinds
  <2>2. /\ PriceOf(c.evicted) \in Int /\ PriceOf(c.replacement) \in Int
        /\ -QtyOf(c.evicted) \in Int /\ QtyOf(c.replacement) \in Int
    <3> HIDE DEF primary, x, o0, o1, own, r0, r1, gone, up, added, goal
    <3>1. PriceOf(c.evicted) \in Int /\ PriceOf(c.replacement) \in Int
      BY DEF Level, PriceOf
    <3>2. -QtyOf(c.evicted) \in Int /\ QtyOf(c.replacement) \in Int BY <1>7
    <3> QED BY <3>1, <3>2
  <2>3. gone \in LevelDeltaType /\ up \in LevelDeltaType
    BY <1>7, <2>1, <2>2 DEF LevelDelta, LevelDeltaType, Kinds
  <2> QED BY <2>3 DEF EvictionDelta, ReplacementDelta
<1> HIDE DEF primary, added, own, o1, gone, up
<1>11. CASE /\ c.evicted = NoLevel /\ c.replacement = NoLevel
            /\ PricesIn(c.view) = own
  <2>1. added = Append(out, primary) BY <1>4, <1>9, <1>10, <1>11, AddedDeltas
  <2>2. ViewTotal(c.view) - v0 = o1 BY <1>0, <1>8, <1>11, NoLevelFacts
  <2>3. goal = r1 BY <1>11, <2>2 DEF Knowing
  <2> HIDE DEF goal, r1
  <2> QED BY <1>3, <2>1, <2>3 DEF goal, added
<1>12. CASE /\ c.replacement = NoLevel
            /\ IsLevel(L, c.evicted) /\ PriceOf(c.evicted) \in own
            /\ PricesIn(c.view) = own \ {PriceOf(c.evicted)}
  <2>0. c.evicted # NoLevel /\ QtyOf(c.evicted) # 0 BY <1>5, <1>12
  <2>1. added = Append(Append(out, primary), gone)
    BY <1>4, <1>9, <1>10, <1>12, <2>0, AddedDeltas
  <2>2. ViewTotal(c.view) - v0 = o1 + (-QtyOf(c.evicted))
    BY <1>0, <1>7, <1>8, <1>12, NoLevelFacts
  <2>3. Hears(side, r1, gone)
           = [ofi |-> o1 + (-QtyOf(c.evicted)), levels |-> L,
              inView |-> own \ {PriceOf(c.evicted)}, right |-> TRUE]
    <3>1. /\ r1.levels = L /\ r1.inView = own /\ r1.right = TRUE /\ r1.ofi = o1
      OBVIOUS
    <3>2. /\ gone.price = PriceOf(c.evicted) /\ gone.newQty = QtyOf(c.evicted) /\ gone.side = side
          /\ gone.wasInView = TRUE /\ gone.inOfiView = FALSE /\ gone.deltaQty = -QtyOf(c.evicted)
      BY DEF gone, LevelDelta
    <3> HIDE DEF r1
    <3>3. Hears(gone.side, r1, gone)
             = [ofi |-> r1.ofi + gone.deltaQty, levels |-> r1.levels,
                inView |-> IF gone.inOfiView THEN r1.inView \cup {gone.price}
                           ELSE r1.inView \ {gone.price},
                right |-> TRUE]
      BY <1>12, <2>0, <3>1, <3>2, SecondaryIsRead DEF IsLevel
    <3> QED BY <3>1, <3>2, <3>3
  <2>4. Hears(side, r1, gone) = goal BY <1>12, <2>2, <2>3 DEF Knowing
  <2>5. Heard(side, start, added) = Hears(side, Heard(side, start, Append(out, primary)), gone)
    <3> DEFINE q == Append(out, primary)
    <3>1. q \in Seq(LevelDeltaType) BY <1>4
    <3> HIDE DEF q
    <3>2. gone \in LevelDeltaType BY <1>10
    <3>3. Heard(side, start, Append(q, gone)) = Hears(side, Heard(side, start, q), gone)
      BY <3>1, <3>2, HeardAppend
    <3> QED BY <2>1, <3>3 DEF q
  <2> HIDE DEF goal, r1
  <2>6. Heard(side, start, added) = goal BY <1>3, <2>4, <2>5
  <2> QED BY <2>6 DEF goal, added
<1>13. CASE /\ c.evicted = NoLevel
            /\ IsLevel(L, c.replacement) /\ PriceOf(c.replacement) \notin own
            /\ PricesIn(c.view) = own \cup {PriceOf(c.replacement)}
  <2>0. c.replacement # NoLevel /\ QtyOf(c.replacement) # 0 BY <1>5, <1>13
  <2>1. added = Append(Append(out, primary), up)
    BY <1>4, <1>9, <1>10, <1>13, <2>0, AddedDeltas
  <2>2. ViewTotal(c.view) - v0 = o1 + QtyOf(c.replacement)
    BY <1>0, <1>7, <1>8, <1>13, NoLevelFacts
  <2>3. Hears(side, r1, up)
           = [ofi |-> o1 + QtyOf(c.replacement), levels |-> L,
              inView |-> own \cup {PriceOf(c.replacement)}, right |-> TRUE]
    <3>1. /\ r1.levels = L /\ r1.inView = own /\ r1.right = TRUE /\ r1.ofi = o1
      OBVIOUS
    <3>2. /\ up.price = PriceOf(c.replacement) /\ up.newQty = QtyOf(c.replacement) /\ up.side = side
          /\ up.wasInView = FALSE /\ up.inOfiView = TRUE /\ up.deltaQty = QtyOf(c.replacement)
      BY DEF up, LevelDelta
    <3> HIDE DEF r1
    <3>3. Hears(up.side, r1, up)
             = [ofi |-> r1.ofi + up.deltaQty, levels |-> r1.levels,
                inView |-> IF up.inOfiView THEN r1.inView \cup {up.price}
                           ELSE r1.inView \ {up.price},
                right |-> TRUE]
      <4>0. up.price \notin r1.inView BY <1>13, <3>1, <3>2
      <4>1. /\ up.wasInView \in BOOLEAN /\ up.inOfiView = ~up.wasInView
        BY <3>2
      <4>3. up.wasInView = (up.price \in r1.inView)
        <5>1. (up.price \in r1.inView) = FALSE BY <4>0
        <5> QED BY <3>2, <5>1
      <4>2. /\ up.price \in DOMAIN r1.levels /\ up.newQty = r1.levels[up.price]
            /\ up.newQty # 0 /\ IsFunction(r1.levels)
        BY <1>13, <2>0, <3>1, <3>2 DEF IsLevel
      <4> QED BY <3>1, <4>1, <4>2, <4>3, SecondaryIsRead
    <3> QED BY <3>1, <3>2, <3>3
  <2>4. Hears(side, r1, up) = goal BY <1>13, <2>2, <2>3 DEF Knowing
  <2>5. Heard(side, start, added) = Hears(side, Heard(side, start, Append(out, primary)), up)
    <3> DEFINE q == Append(out, primary)
    <3>1. q \in Seq(LevelDeltaType) BY <1>4
    <3> HIDE DEF q
    <3>2. up \in LevelDeltaType BY <1>10
    <3>3. Heard(side, start, Append(q, up)) = Hears(side, Heard(side, start, q), up)
      BY <3>1, <3>2, HeardAppend
    <3> QED BY <2>1, <3>3 DEF q
  <2> HIDE DEF goal, r1
  <2>6. Heard(side, start, added) = goal BY <1>3, <2>4, <2>5
  <2> QED BY <2>6 DEF goal, added
<1> QED BY <1>6, <1>11, <1>12, <1>13

-----------------------------------------------------------------------------
(* A message, read.                                                        *)

\* What a change of one side adds says nothing to a reader of another.
LEMMA OthersHearNothing ==
    ASSUME NEW side \in Sides, NEW view, NEW price \in Int, NEW qty \in Nat, NEW delta \in Int,
           NEW kind \in Kinds, NEW c, c.evicted \in Level, c.replacement \in Level,
           NEW out \in Seq(LevelDeltaType), NEW t, t # side, NEW start \in Readers
    PROVE  Heard(t, start, Added(side, out, price, qty, delta, view, c, kind))
              = Heard(t, start, out)
<1> DEFINE primary == PrimaryDelta(side, price, qty, delta, view, c.view, kind)
           gone == LevelDelta(side, PriceOf(c.evicted), QtyOf(c.evicted), -QtyOf(c.evicted),
                              TRUE, FALSE, SecondaryKind(kind))
           up == LevelDelta(side, PriceOf(c.replacement), QtyOf(c.replacement),
                            QtyOf(c.replacement), FALSE, TRUE, SecondaryKind(kind))
           eviction == EvictionDelta(side, c.evicted, kind)
           replacement == ReplacementDelta(side, c.replacement, kind)
           q1 == Append(out, primary)
           q2 == q1 \o eviction
           q3 == q2 \o replacement
<1>1. ASSUME NEW q \in Seq(LevelDeltaType), NEW d \in LevelDeltaType, d.side = side
      PROVE  Heard(t, start, Append(q, d)) = Heard(t, start, q)
  <2>1. Heard(t, start, Append(q, d)) = Hears(t, Heard(t, start, q), d) BY HeardAppend
  <2>2. d.side # t BY <1>1
  <2> QED BY <2>1, <2>2 DEF Hears
<1>2. primary \in LevelDeltaType /\ primary.side = side
  <2>1. primary \in LevelDeltaType BY DeltasAreTyped
  <2> QED BY <2>1 DEF PrimaryDelta, LevelDelta
<1>3. /\ gone \in LevelDeltaType /\ up \in LevelDeltaType
      /\ gone.side = side /\ up.side = side
      /\ eviction = << >> \/ eviction = <<gone>>
      /\ replacement = << >> \/ replacement = <<up>>
  <2>1. SecondaryKind(kind) \in Kinds BY DEF SecondaryKind, Kinds
  <2>2. /\ PriceOf(c.evicted) \in Int /\ PriceOf(c.replacement) \in Int
        /\ QtyOf(c.evicted) \in Nat /\ QtyOf(c.replacement) \in Nat
    BY DEF Level, PriceOf, QtyOf
  <2>3. -QtyOf(c.evicted) \in Int /\ QtyOf(c.replacement) \in Int BY <2>2
  <2>4. gone \in LevelDeltaType /\ up \in LevelDeltaType
    BY <2>1, <2>2, <2>3 DEF LevelDelta, LevelDeltaType, Kinds
  <2>5. gone.side = side /\ up.side = side BY DEF LevelDelta
  <2>6. /\ eviction = << >> \/ eviction = <<gone>>
        /\ replacement = << >> \/ replacement = <<up>>
    BY DEF EvictionDelta, ReplacementDelta
  <2> QED BY <2>4, <2>5, <2>6
<1>4. Added(side, out, price, qty, delta, view, c, kind) = q3 BY DEF Added
<1> HIDE DEF primary, gone, up, eviction, replacement
<1>5. q1 \in Seq(LevelDeltaType) /\ Heard(t, start, q1) = Heard(t, start, out)
  BY <1>1, <1>2
<1> HIDE DEF q1
<1>6. q2 \in Seq(LevelDeltaType) /\ Heard(t, start, q2) = Heard(t, start, q1)
  <2>1. CASE eviction = << >>
    <3>1. q2 = q1 BY <1>5, <2>1, AddedDeltas
    <3> QED BY <1>5, <3>1
  <2>2. CASE eviction = <<gone>>
    <3>1. q2 = Append(q1, gone) BY <1>3, <1>5, <2>2, AddedDeltas
    <3>2. Append(q1, gone) \in Seq(LevelDeltaType) BY <1>3, <1>5
    <3> HIDE DEF q2
    <3> QED BY <1>1, <1>3, <1>5, <3>1, <3>2
  <2> QED BY <1>3, <2>1, <2>2
<1> HIDE DEF q2
<1>7. Heard(t, start, q3) = Heard(t, start, q2)
  <2>1. CASE replacement = << >>
    <3>1. q3 = q2 BY <1>6, <2>1, AddedDeltas
    <3> QED BY <3>1
  <2>2. CASE replacement = <<up>>
    <3>1. q3 = Append(q2, up) BY <1>3, <1>6, <2>2, AddedDeltas
    <3> HIDE DEF q3
    <3> QED BY <1>1, <1>3, <1>6, <3>1
  <2> QED BY <1>3, <2>1, <2>2
<1> QED BY <1>4, <1>5, <1>6, <1>7

\* As long as the window of its side has not moved, a reader who has heard the deltas
\* knows the side.
Tells(side, start, v0, h) ==
    side \notin h.moved =>
        Heard(side, start, h.out) = Knowing(h.view, Levels(h.ladder), v0)

\* Readers of other sides hear nothing between two halves.
NoOtherHears(side, h, g) ==
    \A t \in Sides : t # side => \A r \in Readers : Heard(t, r, g.out) = Heard(t, r, h.out)

\* After a level change the reader still knows the side, and the others still know theirs.
LEMMA ChangeIsTold ==
    ASSUME BookOnGrid, NEW side \in Sides, NEW h \in Halves(side), NEW price \in Nat \ {0},
           OnGrid(price), NEW qty \in Nat, NEW kind \in LiveKinds, NEW start \in Readers,
           NEW v0 \in Int, Tells(side, start, v0, h)
    PROVE  LET g == applyLevelChange(h, side, price, qty, kind)
           IN  /\ Tells(side, start, v0, g)
               /\ h.moved \subseteq g.moved
               /\ NoOtherHears(side, h, g)
<1> DEFINE old == h.ladder
           new == set(old, price, qty)
           view == IF Recenters(old, price) THEN rebuildOfiSide(side, new) ELSE h.view
           moved == h.moved \cup (IF Recenters(old, price) THEN {side} ELSE {})
           delta == qty - get(old, price)
           c == updateOfiView(side, new, view, price, qty)
           out == Added(side, h.out, price, qty, delta, view, c, kind)
           g == applyLevelChange(h, side, price, qty, kind)
           L == Levels(new)
           L0 == Levels(old)
<1>0. /\ h.view \in Seq(Level) /\ h.out \in Seq(LevelDeltaType)
      /\ h.moved \in SUBSET Sides /\ SideOK(side, old, h.view) /\ price \in Int
      /\ kind \in Kinds
  BY DEF Halves, LiveKinds, Kinds
<1>1. /\ LadderInvariant(old) /\ Ordered(side, h.view) /\ Len(h.view) <= OfiDepth
      /\ OnGridLadder(old) /\ PositiveLevels(old)
      /\ TopOf(side, L0, h.view, OfiDepth)
  BY <1>0 DEF SideOK
<1>2. LadderInvariant(new) BY <1>1, SetKeepsInvariant
<1>3. /\ OnGridLadder(new) /\ PositiveLevels(new)
      /\ ~Recenters(old, price) => Follows(L, L0, price, qty)
  BY <1>1, LevelsAfterSet
<1>4. view \in Seq(Level) /\ Ordered(side, view) /\ Len(view) <= OfiDepth
  <2>1. /\ rebuildOfiSide(side, new) \in Seq(Level) /\ Ordered(side, rebuildOfiSide(side, new))
        /\ Len(rebuildOfiSide(side, new)) <= OfiDepth
    BY <1>2, RebuildIsTop
  <2> HIDE DEF new, old
  <2> QED BY <1>0, <1>1, <2>1
<1>5. c.view \in Seq(Level) /\ c.evicted \in Level /\ c.replacement \in Level
  <2> HIDE DEF view, new
  <2> QED BY <1>0, <1>2, <1>4, UpdateKeepsView
<1>6. delta \in Int /\ get(old, price) \in Nat BY <1>0, <1>1, GetOfLevel
<1>7. \/ g = h
      \/ delta = 0 /\ g = [h EXCEPT !.ladder = new, !.view = view, !.moved = moved]
      \/ g = [ladder |-> new, view |-> c.view, moved |-> moved, out |-> out]
  BY DEF applyLevelChange, Added
<1>8. h.moved \subseteq moved /\ (Recenters(old, price) => side \in moved) OBVIOUS
<1>9. ~Recenters(old, price) => view = h.view /\ moved = h.moved OBVIOUS
<1>10. IsFunction(L) /\ IsFunction(L0) BY <1>1, <1>2, LevelsOfReader
<1>11. DOMAIN h = {"ladder", "view", "out", "moved"}
  BY DEF Halves
<1>12. Added(side, h.out, price, qty, delta, view, c, kind) = out OBVIOUS
<1>13. side \notin h.moved => Heard(side, start, h.out) = Knowing(h.view, L0, v0) BY DEF Tells
<1>14. NoOtherHears(side, h, h) BY DEF NoOtherHears
<1>15. \A k : k.out = h.out => NoOtherHears(side, h, k) BY DEF NoOtherHears
<1> HIDE DEF old, new, view, moved, delta, c, out, g, L, L0
<1>16. CASE g = h BY <1>14, <1>16 DEF g
<1>17. CASE delta = 0 /\ g = [h EXCEPT !.ladder = new, !.view = view, !.moved = moved]
  <2>1. g.ladder = new /\ g.view = view /\ g.moved = moved /\ g.out = h.out
    BY <1>11, <1>17
  <2>2. ASSUME side \notin moved PROVE Heard(side, start, h.out) = Knowing(view, L, v0)
    <3>1. ~Recenters(old, price) /\ view = h.view /\ moved = h.moved BY <1>8, <1>9, <2>2
    <3>2. Heard(side, start, h.out) = Knowing(h.view, L0, v0) BY <1>13, <2>2, <3>1
    <3>3. get(old, price) = qty BY <1>6, <1>17 DEF delta
    <3>4. Follows(L, Levels(old), price, get(old, price)) BY <1>3, <3>1, <3>3 DEF L0
    <3>5. DOMAIN L = DOMAIN L0 /\ \A r \in DOMAIN L : L[r] = L0[r]
      BY <1>1, <3>4, SameQtySameLevels DEF L0
    <3>6. L = L0 BY <1>10, <3>5 DEF IsFunction
    <3> QED BY <3>1, <3>2, <3>6
  <2>3. Tells(side, start, v0, g) BY <2>1, <2>2 DEF Tells, L
  <2>4. NoOtherHears(side, h, g) BY <1>15, <2>1
  <2> QED BY <1>8, <2>1, <2>3, <2>4 DEF g
<1>18. CASE g = [ladder |-> new, view |-> c.view, moved |-> moved, out |-> out]
  <2>1. g.ladder = new /\ g.view = c.view /\ g.moved = moved /\ g.out = out BY <1>18
  <2>2. ASSUME side \notin moved PROVE Heard(side, start, out) = Knowing(c.view, L, v0)
    <3>1. ~Recenters(old, price) /\ view = h.view /\ moved = h.moved BY <1>8, <1>9, <2>2
    <3>2. Heard(side, start, h.out) = Knowing(view, L0, v0) BY <1>13, <2>2, <3>1
    <3>3. Follows(L, L0, price, qty) BY <1>3, <3>1
    <3>4. DOMAIN L0 \subseteq Int /\ \A p \in DOMAIN L : L[p] \in Nat \ {0}
      BY <1>1, <1>2, LevelsAreInt DEF L, L0
    <3>5. TopOf(side, L0, view, OfiDepth) BY <1>1, <3>1
    <3>6. Explained(view, updateOfiView(side, new, view, price, qty), Levels(new), price,
                    qty - Before(L0, price))
      BY <1>0, <1>2, <1>3, <1>4, <3>3, <3>4, <3>5, UpdateIsExplained DEF L
    <3>7. get(old, price) = Before(L0, price)
      <4>1. CASE price \in DOMAIN L0 BY <1>1, <4>1, GetOfLevel DEF L0, Before
      <4>2. CASE price \notin DOMAIN L0
        <5>1. price \notin DOMAIN Levels(old) BY <4>2 DEF L0
        <5>2. get(old, price) = 0 BY <1>1, <5>1, GetOfNoLevel
        <5> QED BY <4>2, <5>2 DEF Before
      <4> QED BY <4>1, <4>2
    <3>8. Explained(view, c, L, price, delta) BY <3>6, <3>7 DEF c, L, delta
    <3>9. DOMAIN L \subseteq Nat \ {0} BY <1>3 DEF PositiveLevels, L
    <3>10. Heard(side, start, Added(side, h.out, price, qty, delta, view, c, kind))
              = Knowing(c.view, L, v0)
      BY <1>0, <1>4, <1>5, <1>6, <1>10, <3>2, <3>3, <3>4, <3>8, <3>9, AddedIsHeard, SMTT(60)
    <3> QED BY <1>12, <3>10
  <2>3. Tells(side, start, v0, g) BY <2>1, <2>2 DEF Tells, L
  <2>4. NoOtherHears(side, h, g)
    <3>1. ASSUME NEW t \in Sides, t # side, NEW r \in Readers
          PROVE  Heard(t, r, out) = Heard(t, r, h.out)
      BY <1>0, <1>5, <1>6, <1>12, <3>1, OthersHearNothing
    <3> QED BY <2>1, <3>1 DEF NoOtherHears
  <2> QED BY <1>8, <2>1, <2>3, <2>4 DEF g
<1> QED BY <1>7, <1>16, <1>17, <1>18

\* A message is told to a reader who knew its side, and to no reader of the other.
LEMMA MessageIsTold ==
    ASSUME BookOnGrid, NEW side \in Sides, NEW levels \in LevelList, LevelsOnGrid(levels),
           NEW kind \in LiveKinds, NEW prior,
           SideOK(side, ladders[side], views[side]), ladders[side] \in LadderType,
           prior.out \in Seq(LevelDeltaType), prior.moved \in SUBSET Sides,
           NEW start \in Readers, NEW v0 \in Int,
           Heard(side, start, prior.out) = Knowing(views[side], Levels(ladders[side]), v0)
    PROVE  LET g == ApplyLevels(side, levels, kind, prior)
           IN  /\ Tells(side, start, v0, g)
               /\ prior.moved \subseteq g.moved
               /\ NoOtherHears(side, prior, g)
<1> DEFINE X == {h \in Halves(side) : /\ Tells(side, start, v0, h)
                                      /\ prior.moved \subseteq h.moved
                                      /\ NoOtherHears(side, prior, h)}
           base == [ladder |-> ladders[side], view |-> views[side],
                    out |-> prior.out, moved |-> prior.moved]
<1>1. base \in X
  <2>1. base \in Halves(side) BY DEF Halves, SideOK
  <2>2. /\ base.ladder = ladders[side] /\ base.view = views[side]
        /\ base.out = prior.out /\ base.moved = prior.moved
    OBVIOUS
  <2> HIDE DEF base
  <2>3. Tells(side, start, v0, base) BY <2>2 DEF Tells
  <2>4. NoOtherHears(side, prior, base) BY <2>2 DEF NoOtherHears
  <2> QED BY <2>1, <2>2, <2>3, <2>4
<1>2. kind \in Kinds BY DEF LiveKinds, Kinds
<1>3. ASSUME NEW h \in X, NEW i \in 1 .. Len(levels)
      PROVE  applyLevelChange(h, side, PriceOf(levels[i]), QtyOf(levels[i]), kind) \in X
  <2> DEFINE g == applyLevelChange(h, side, PriceOf(levels[i]), QtyOf(levels[i]), kind)
  <2>1. PriceOf(levels[i]) \in Nat \ {0} /\ QtyOf(levels[i]) \in Nat BY LevelsOfList
  <2>2. OnGrid(PriceOf(levels[i])) BY LevelsOfList DEF LevelsOnGrid
  <2>3. h \in Halves(side) /\ Tells(side, start, v0, h)
        /\ prior.moved \subseteq h.moved /\ NoOtherHears(side, prior, h)
    OBVIOUS
  <2>4. g \in Halves(side) BY <1>2, <2>1, <2>2, <2>3, ChangeKeepsSide
  <2>5. Tells(side, start, v0, g) /\ h.moved \subseteq g.moved /\ NoOtherHears(side, h, g)
    BY <2>1, <2>2, <2>3, ChangeIsTold
  <2> HIDE DEF g
  <2>6. NoOtherHears(side, prior, g) BY <2>3, <2>5 DEF NoOtherHears
  <2>7. g \in X BY <2>3, <2>4, <2>5, <2>6
  <2> QED BY <2>7 DEF g
<1>4. ApplyLevels(side, levels, kind, prior) \in X
  <2> HIDE DEF X
  <2> QED BY <1>1, <1>2, <1>3, MessageStays
<1> QED BY <1>4

\* What a reader knows who knows a side as it is.
LEMMA StartingReader ==
    ASSUME BookInvariant, NEW s \in Sides
    PROVE  LET v0 == ViewTotal(views[s])
               start == Knowing(views[s], Levels(ladders[s]), v0)
           IN  /\ v0 \in Int /\ start \in Readers
               /\ Told(s) = Heard(s, start, result'.deltas)
<1> DEFINE v0 == ViewTotal(views[s])
           start == Knowing(views[s], Levels(ladders[s]), v0)
<1>1. views[s] \in Seq(Level) /\ LadderInvariant(ladders[s])
  BY DEF BookInvariant, BookOK, SideOK
<1>2. v0 \in Int BY <1>1, TotalOfChanged
<1>3. v0 - v0 = 0 BY <1>2
<1>4. /\ PricesIn(views[s]) \in SUBSET Int
      /\ Levels(ladders[s]) \in UNION {[D -> Nat] : D \in SUBSET Int}
  BY <1>1, PricesOfView, LevelsOfReader
<1>5. start = [ofi |-> 0, levels |-> Levels(ladders[s]), inView |-> PricesIn(views[s]),
               right |-> TRUE]
  BY <1>3 DEF Knowing
<1>6. start \in Readers
  <2>1. 0 \in Int /\ TRUE \in BOOLEAN OBVIOUS
  <2> QED BY <1>4, <1>5, <2>1 DEF Readers
<1> QED BY <1>2, <1>5, <1>6 DEF Told

\* Both sides of a message are told.
LEMMA BothSidesTell ==
    ASSUME BookOnGrid, BookInvariant, NEW first \in Sides, NEW second \in Sides,
           first # second, NEW firstLevels \in LevelList, NEW secondLevels \in LevelList,
           LevelsOnGrid(firstLevels), LevelsOnGrid(secondLevels), NEW kind \in LiveKinds,
           ApplyBothSides(first, firstLevels, second, secondLevels, kind), NEW s \in Sides,
           SameWindow(s)
    PROVE  Told(s) = Knowing(views'[s], Levels(ladders'[s]), ViewTotal(views[s]))
<1> DEFINE prior == [out |-> << >>, moved |-> {}]
           a == ApplyLevels(first, firstLevels, kind, prior)
           b == ApplyLevels(second, secondLevels, kind, a)
           v0(t) == ViewTotal(views[t])
           start(t) == Knowing(views[t], Levels(ladders[t]), v0(t))
<1>1. /\ ladders' = [ladders EXCEPT ![first] = a.ladder, ![second] = b.ladder]
      /\ views' = [views EXCEPT ![first] = a.view, ![second] = b.view]
      /\ result' = [success |-> TRUE, deltas |-> b.out, moved |-> b.moved]
  BY DEF ApplyBothSides
<1>2. /\ ladders \in [Sides -> LadderType] /\ views \in [Sides -> Seq(Level)]
      /\ \A t \in Sides : SideOK(t, ladders[t], views[t])
  BY DEF BookInvariant, BookOK
<1>3. /\ prior.out = << >> /\ prior.moved = {}
      /\ prior.out \in Seq(LevelDeltaType) /\ prior.moved \in SUBSET Sides
  BY EmptySeq
<1> HIDE DEF prior
<1>4. \A t \in Sides : /\ v0(t) \in Int /\ start(t) \in Readers
                       /\ Told(t) = Heard(t, start(t), result'.deltas)
  BY StartingReader
<1>5. \A t \in Sides : Heard(t, start(t), prior.out) = start(t)
  BY <1>3, <1>4, HeardProperties
<1>6. kind \in Kinds BY DEF LiveKinds, Kinds
<1>7. a \in Halves(first) BY <1>2, <1>3, <1>6, MessageKeepsSide
<1>8. /\ Tells(first, start(first), v0(first), a)
      /\ NoOtherHears(first, prior, a)
  <2>1. start(first) \in Readers /\ v0(first) \in Int BY <1>4
  <2>2. Heard(first, start(first), prior.out)
           = Knowing(views[first], Levels(ladders[first]), v0(first))
    BY <1>5
  <2>3. SideOK(first, ladders[first], views[first]) /\ ladders[first] \in LadderType
    BY <1>2
  <2> HIDE DEF start, v0
  <2> QED BY <1>3, <2>1, <2>2, <2>3, MessageIsTold
<1> HIDE DEF a
<1>9. a.out \in Seq(LevelDeltaType) /\ a.moved \in SUBSET Sides BY <1>7 DEF Halves
<1>10. Heard(second, start(second), a.out) = start(second)
  <2>1. start(second) \in Readers BY <1>4
  <2>2. Heard(second, start(second), a.out) = Heard(second, start(second), prior.out)
    <3> HIDE DEF start
    <3> QED BY <1>8, <2>1 DEF NoOtherHears
  <2> QED BY <1>5, <2>2
<1>11. /\ Tells(second, start(second), v0(second), b)
       /\ a.moved \subseteq b.moved
       /\ NoOtherHears(second, a, b)
  <2>1. start(second) \in Readers /\ v0(second) \in Int BY <1>4
  <2>2. Heard(second, start(second), a.out)
           = Knowing(views[second], Levels(ladders[second]), v0(second))
    BY <1>10
  <2>3. SideOK(second, ladders[second], views[second]) /\ ladders[second] \in LadderType
    BY <1>2
  <2> HIDE DEF start, v0
  <2> QED BY <1>9, <2>1, <2>2, <2>3, MessageIsTold
<1> HIDE DEF b
<1>12. result'.deltas = b.out /\ result'.moved = b.moved BY <1>1
<1>13. s \notin b.moved BY <1>12 DEF SameWindow
<1>14. /\ ladders'[first] = a.ladder /\ ladders'[second] = b.ladder
       /\ views'[first] = a.view /\ views'[second] = b.view
  BY <1>1, <1>2
<1>15. Told(s) = Heard(s, start(s), b.out) BY <1>4, <1>12
<1>16. CASE s = first
  <2>1. Heard(first, start(first), b.out) = Heard(first, start(first), a.out)
    <3>1. start(first) \in Readers BY <1>4
    <3> HIDE DEF start
    <3> QED BY <1>11, <3>1 DEF NoOtherHears
  <2>2. Heard(first, start(first), a.out) = Knowing(a.view, Levels(a.ladder), v0(first))
    <3>1. first \notin a.moved BY <1>11, <1>13, <1>16
    <3> HIDE DEF start, v0
    <3> QED BY <1>8, <3>1 DEF Tells
  <2> QED BY <1>14, <1>15, <1>16, <2>1, <2>2
<1>17. CASE s = second
  <2>1. Heard(second, start(second), b.out) = Knowing(b.view, Levels(b.ladder), v0(second))
    <3> HIDE DEF start, v0
    <3> QED BY <1>11, <1>13, <1>17 DEF Tells
  <2> QED BY <1>14, <1>15, <1>17, <2>1
<1>18. s = first \/ s = second BY DEF Sides
<1> QED BY <1>16, <1>17, <1>18

\* From an update that changes nothing nothing is learnt.
LEMMA RefusalIsTold ==
    ASSUME BookInvariant, result'.deltas = << >>, UNCHANGED <<ladders, views>>, NEW s \in Sides
    PROVE  Told(s) = Knowing(views'[s], Levels(ladders'[s]), ViewTotal(views[s]))
<1> DEFINE start == Knowing(views[s], Levels(ladders[s]), ViewTotal(views[s]))
<1>1. start \in Readers /\ Told(s) = Heard(s, start, result'.deltas) BY StartingReader
<1>2. Heard(s, start, << >>) = start
  <2> HIDE DEF start
  <2> QED BY <1>1, HeardProperties
<1> QED BY <1>1, <1>2

\* Every update is told.
LEMMA UpdateIsTold ==
    ASSUME BookOnGrid, BookInvariant, IsUpdate, NEW s \in Sides, SameWindow(s)
    PROVE  Told(s) = Knowing(views'[s], Levels(ladders'[s]), ViewTotal(views[s]))
<1>0. feed \in Feeds BY DEF BookInvariant
<1>1. CASE BinanceUpdate
  <2>1. PICK m \in Updates[feed], last \in 2 .. MaxId, kind \in {Genuine, Backfill} :
          \E from \in 2 .. last : applyUpdate(from, last, m.asks, m.bids, kind)
    BY <1>1 DEF BinanceUpdate
  <2>2. PICK from \in 2 .. last : applyUpdate(from, last, m.asks, m.bids, kind)
    BY <2>1
  <2>3. CASE /\ result' = Nothing
             /\ UNCHANGED <<ladders, views, lastUpdateId, snapshotApplied>>
    <3>1. result'.deltas = << >> BY <2>3 DEF Nothing
    <3> QED BY <2>3, <3>1, RefusalIsTold
  <2>4. CASE /\ result' = [Nothing EXCEPT !.success = FALSE]
             /\ UNCHANGED <<ladders, views, lastUpdateId, snapshotApplied>>
    <3>1. result'.deltas = << >> BY <2>4 DEF Nothing
    <3> QED BY <2>4, <3>1, RefusalIsTold
  <2>5. CASE ApplyBothSides("ask", m.asks, "bid", m.bids, kind)
    <3>1. m.asks \in LevelList /\ m.bids \in LevelList
          /\ LevelsOnGrid(m.asks) /\ LevelsOnGrid(m.bids)
      BY <1>0, MessagesAreLists
    <3>2. "ask" \in Sides /\ "bid" \in Sides /\ "ask" # "bid" /\ kind \in LiveKinds
      BY DEF Sides, LiveKinds
    <3> QED BY <2>5, <3>1, <3>2, BothSidesTell
  <2> QED BY <2>2, <2>3, <2>4, <2>5 DEF applyUpdate
<1>2. CASE KrakenUpdate
  <2>1. PICK m \in Updates[feed] : applyDelta(m.bids, m.asks, Genuine)
    BY <1>2 DEF KrakenUpdate
  <2>2. ApplyBothSides("bid", m.bids, "ask", m.asks, Genuine) BY <2>1 DEF applyDelta
  <2>3. m.asks \in LevelList /\ m.bids \in LevelList
        /\ LevelsOnGrid(m.asks) /\ LevelsOnGrid(m.bids)
    BY <1>0, MessagesAreLists
  <2>4. "ask" \in Sides /\ "bid" \in Sides /\ "ask" # "bid" /\ Genuine \in LiveKinds
    BY DEF Sides, LiveKinds
  <2> QED BY <2>2, <2>3, <2>4, BothSidesTell
<1> QED BY <1>1, <1>2 DEF IsUpdate

-----------------------------------------------------------------------------
(* The deltas of an update, on the tick grid, for any messages.            *)

\* The OFI sum of a message is the change of the total in the view: what enters,
\* leaves, is evicted or moves up is counted once (ofi_types.hpp:21-22).
THEOREM DeltasAccountForView ==
    ASSUME BookOnGrid
    PROVE  Spec => OfiDeltasAccountForView
<1>1. BookInvariant /\ [Next]_vars =>
         [IsUpdate => \A s \in Sides : SameWindow(s) =>
             Told(s).ofi = ViewTotal(views'[s]) - ViewTotal(views[s])]_vars
  <2> SUFFICES ASSUME BookInvariant, IsUpdate, NEW s \in Sides, SameWindow(s)
               PROVE  Told(s).ofi = ViewTotal(views'[s]) - ViewTotal(views[s])
    OBVIOUS
  <2>1. Told(s) = Knowing(views'[s], Levels(ladders'[s]), ViewTotal(views[s]))
    BY UpdateIsTold
  <2> QED BY <2>1 DEF Knowing
<1> QED BY <1>1, BookInvariantHolds, PTL DEF Spec, OfiDeltasAccountForView

\* A copy of the levels that is patched with the state changes among the deltas stays
\* the book (order_book.cpp:127-184).
THEOREM PatchedCopyIsBook ==
    ASSUME BookOnGrid
    PROVE  Spec => DeltasReproduceBook
<1>1. BookInvariant /\ [Next]_vars =>
         [IsUpdate => \A s \in Sides : SameWindow(s) =>
             Told(s).levels = Levels(ladders'[s])]_vars
  <2> SUFFICES ASSUME BookInvariant, IsUpdate, NEW s \in Sides, SameWindow(s)
               PROVE  Told(s).levels = Levels(ladders'[s])
    OBVIOUS
  <2>1. Told(s) = Knowing(views'[s], Levels(ladders'[s]), ViewTotal(views[s]))
    BY UpdateIsTold
  <2> QED BY <2>1 DEF Knowing
<1> QED BY <1>1, BookInvariantHolds, PTL DEF Spec, DeltasReproduceBook

\* Each flag says where the one before it, or the view, left the price, and together they
\* end where the view ends (ofi_types.hpp:15-16).
THEOREM FlagsAreRight ==
    ASSUME BookOnGrid
    PROVE  Spec => FlagsFollowView
<1>1. BookInvariant /\ [Next]_vars =>
         [IsUpdate => \A s \in Sides : SameWindow(s) =>
             Told(s).right /\ Told(s).inView = PricesIn(views'[s])]_vars
  <2> SUFFICES ASSUME BookInvariant, IsUpdate, NEW s \in Sides, SameWindow(s)
               PROVE  Told(s).right /\ Told(s).inView = PricesIn(views'[s])
    OBVIOUS
  <2>1. Told(s) = Knowing(views'[s], Levels(ladders'[s]), ViewTotal(views[s]))
    BY UpdateIsTold
  <2> QED BY <2>1 DEF Knowing
<1> QED BY <1>1, BookInvariantHolds, PTL DEF Spec, FlagsFollowView
=============================================================================
