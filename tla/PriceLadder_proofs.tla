------------------------- MODULE PriceLadder_proofs -------------------------
(***************************************************************************)
(* One side of the book, for every tick size, window width, price and       *)
(* quantity: the operators of PriceLadder and the life of a ladder          *)
(* (LadderMachine).  LadderInvariant is what each operation of the class    *)
(* assumes of the array it is given and re-establishes; with prices on the  *)
(* grid the array implements PriceWindow.                                   *)
(***************************************************************************)
EXTENDS LadderMachine, FiniteSetTheorems, Folding_proofs

LadderInvariant(l) ==
    /\ l \in LadderType
    /\ IndexConsistent(l)
    /\ BlankUntilCentred(l)

-----------------------------------------------------------------------------
(* Arithmetic.                                                             *)

\* The quotient of a division, bounded from both sides.
LEMMA QuotientBounds ==
    ASSUME NEW a \in Int, NEW t \in Nat \ {0}
    PROVE  /\ a \div t \in Int
           /\ (a \div t) * t <= a
           /\ a < (a \div t) * t + t
  BY SMT

\* Those bounds determine the quotient.
LEMMA QuotientUnique ==
    ASSUME NEW a \in Int, NEW t \in Nat \ {0}, NEW q \in Int,
           q * t <= a, a < q * t + t
    PROVE  a \div t = q
  BY SMT

\* A price is in the middle slot of the window centred on it.
LEMMA CentreIsMiddleSlot ==
    ASSUME NEW p \in Nat
    PROVE  /\ CentredBase(p) \in Int
           /\ (p - CentredBase(p)) \div TickSize = HalfRange
<1> DEFINE t == TickSize
           h == HalfRange
           r == (p \div t) * t
<1>0. t \in Nat \ {0} /\ h \in Nat
  BY LadderAssumption
<1>1. p \div t \in Int /\ r <= p /\ p < r + t
  BY <1>0, QuotientBounds
<1>2. r \in Int /\ h * t \in Int
  BY <1>0, <1>1
<1>3. h * t <= p - (r - h * t) /\ p - (r - h * t) < h * t + t
  BY <1>0, <1>1, <1>2
<1>4. p - (r - h * t) \in Int /\ h \in Int
  BY <1>0, <1>2
<1>5. (p - (r - h * t)) \div t = h
  <2> HIDE DEF r, t, h
  <2> QED BY <1>0, <1>3, <1>4, QuotientUnique
<1> QED BY <1>2, <1>5 DEF CentredBase

\* The grid index of a price at or above the base is not negative.
LEMMA QuotientOfNatural ==
    ASSUME NEW a \in Nat, NEW t \in Nat \ {0}
    PROVE  a \div t \in Nat
  BY SMT

-----------------------------------------------------------------------------
(* Extrema of sets of slots.                                               *)

\* The array has at least one slot.
LEMMA SizeIsPositive == Size \in Nat \ {0}
  BY LadderAssumption DEF Size

\* Min of a non-empty set of slots is its least member.
LEMMA MinOfSlots ==
    ASSUME NEW T, T \subseteq Slots, T # {}
    PROVE  Min(T) \in T /\ \A y \in T : Min(T) =< y
<1>1. T \subseteq Nat
  BY SizeIsPositive DEF Slots
<1> QED BY <1>1, LeastOfNaturals DEF Min

\* Max of a non-empty set of slots is its greatest member.
LEMMA MaxOfSlots ==
    ASSUME NEW T, T \subseteq Slots, T # {}
    PROVE  Max(T) \in T /\ \A y \in T : Max(T) >= y
<1> DEFINE U == {Size - x : x \in T}
<1>1. \A x \in T : x \in Nat /\ x < Size
  BY SizeIsPositive DEF Slots
<1>2. U \subseteq Nat /\ U # {}
  BY <1>1, SizeIsPositive
<1>3. PICK u \in U : \A v \in U : u =< v
  BY <1>2, LeastOfNaturals
<1>4. PICK x \in T : u = Size - x
  OBVIOUS
<1>5. \A y \in T : x >= y
  <2> SUFFICES ASSUME NEW y \in T PROVE x >= y
    OBVIOUS
  <2>1. Size - y \in U
    OBVIOUS
  <2>2. Size - x <= Size - y
    BY <1>3, <1>4, <2>1
  <2> QED BY <1>1, <2>2, SizeIsPositive
<1> QED BY <1>5 DEF Max

\* LastActive is the end of the downward scan from slot i.
LEMMA LastActiveIsLast ==
    ASSUME NEW q \in [Slots -> Nat], NEW i \in Int
    PROVE  \/ /\ LastActive(q, i) = NoSlot
              /\ \A j \in Slots : j <= i => q[j] = 0
           \/ /\ LastActive(q, i) \in Slots
              /\ LastActive(q, i) <= i
              /\ q[LastActive(q, i)] > 0
              /\ \A j \in Slots : j > LastActive(q, i) /\ j <= i => q[j] = 0
<1> DEFINE A == {j \in ActiveSlots(q) : j <= i}
<1>1. A \subseteq Slots
  BY DEF ActiveSlots
<1>2. \A j \in Slots : j <= i /\ j \notin A => q[j] = 0
  BY DEF ActiveSlots
<1>3. CASE A = {}
  BY <1>2, <1>3 DEF LastActive
<1>4. CASE A # {}
  <2>1. LastActive(q, i) = Max(A)
    BY <1>4 DEF LastActive
  <2>2. Max(A) \in A /\ \A y \in A : Max(A) >= y
    BY <1>1, <1>4, MaxOfSlots
  <2>3. \A j \in Slots : j > Max(A) => j \notin A
    <3> SUFFICES ASSUME NEW j \in Slots, j > Max(A), j \in A PROVE FALSE
      OBVIOUS
    <3>1. Max(A) >= j
      BY <2>2
    <3>2. j \in Int /\ Max(A) \in Int
      BY <1>1, <2>2, SizeIsPositive DEF Slots
    <3> HIDE DEF A
    <3> QED BY <3>1, <3>2
  <2> QED BY <1>1, <1>2, <2>1, <2>2, <2>3 DEF ActiveSlots
<1> QED BY <1>3, <1>4

\* FirstActive is the end of the upward scan from slot i.
LEMMA FirstActiveIsFirst ==
    ASSUME NEW q \in [Slots -> Nat], NEW i \in Int
    PROVE  \/ /\ FirstActive(q, i) = NoSlot
              /\ \A j \in Slots : j >= i => q[j] = 0
           \/ /\ FirstActive(q, i) \in Slots
              /\ FirstActive(q, i) >= i
              /\ q[FirstActive(q, i)] > 0
              /\ \A j \in Slots : j < FirstActive(q, i) /\ j >= i => q[j] = 0
<1> DEFINE A == {j \in ActiveSlots(q) : j >= i}
<1>1. A \subseteq Slots
  BY DEF ActiveSlots
<1>2. \A j \in Slots : j >= i /\ j \notin A => q[j] = 0
  BY DEF ActiveSlots
<1>3. CASE A = {}
  BY <1>2, <1>3 DEF FirstActive
<1>4. CASE A # {}
  <2>1. FirstActive(q, i) = Min(A)
    BY <1>4 DEF FirstActive
  <2>2. Min(A) \in A /\ \A y \in A : Min(A) =< y
    BY <1>1, <1>4, MinOfSlots
  <2>3. \A j \in Slots : j < Min(A) => j \notin A
    <3> SUFFICES ASSUME NEW j \in Slots, j < Min(A), j \in A PROVE FALSE
      OBVIOUS
    <3>1. Min(A) =< j
      BY <2>2
    <3>2. j \in Int /\ Min(A) \in Int
      BY <1>1, <2>2, SizeIsPositive DEF Slots
    <3> HIDE DEF A
    <3> QED BY <3>1, <3>2
  <2> QED BY <1>1, <1>2, <2>1, <2>2, <2>3 DEF ActiveSlots
<1> QED BY <1>3, <1>4

\* The two scans are determined by what they find.
LEMMA LastActiveUnique ==
    ASSUME NEW q \in [Slots -> Nat], NEW m,
           \/ m = NoSlot /\ \A j \in Slots : q[j] = 0
           \/ m \in Slots /\ q[m] > 0 /\ \A j \in Slots : j > m => q[j] = 0
    PROVE  LastActive(q, Size - 1) = m
<1> DEFINE n == LastActive(q, Size - 1)
<1>1. Size - 1 \in Int /\ \A j \in Slots : j \in Int /\ j <= Size - 1
  BY SizeIsPositive DEF Slots
<1>2. \/ n = NoSlot /\ \A j \in Slots : q[j] = 0
      \/ n \in Slots /\ q[n] > 0 /\ \A j \in Slots : j > n => q[j] = 0
  BY <1>1, LastActiveIsLast
<1> HIDE DEF n
<1>3. n = m
  BY <1>1, <1>2
<1> QED BY <1>3 DEF n

\* FirstActive is pinned down by its two properties.
LEMMA FirstActiveUnique ==
    ASSUME NEW q \in [Slots -> Nat], NEW m,
           \/ m = NoSlot /\ \A j \in Slots : q[j] = 0
           \/ m \in Slots /\ q[m] > 0 /\ \A j \in Slots : j < m => q[j] = 0
    PROVE  FirstActive(q, 0) = m
<1> DEFINE n == FirstActive(q, 0)
<1>1. \A j \in Slots : j \in Int /\ j >= 0
  BY SizeIsPositive DEF Slots
<1>2. \/ n = NoSlot /\ \A j \in Slots : q[j] = 0
      \/ n \in Slots /\ q[n] > 0 /\ \A j \in Slots : j < n => q[j] = 0
  BY <1>1, FirstActiveIsFirst
<1> HIDE DEF n
<1>3. n = m
  BY <1>1, <1>2
<1> QED BY <1>3 DEF n

-----------------------------------------------------------------------------
(* Writing a slot.                                                         *)

\* The active slots are finitely many.
LEMMA ActiveSlotsFinite ==
    ASSUME NEW q \in [Slots -> Nat]
    PROVE  IsFiniteSet(ActiveSlots(q)) /\ Cardinality(ActiveSlots(q)) \in Nat
<1>1. IsFiniteSet(Slots)
  BY SizeIsPositive, FS_Interval DEF Slots
<1>2. ActiveSlots(q) \subseteq Slots
  BY DEF ActiveSlots
<1> QED BY <1>1, <1>2, FS_Subset, FS_CardinalityType

\* price_ladder.cpp:113-117 counts the active slots.
LEMMA CountAfterWrite ==
    ASSUME NEW q \in [Slots -> Nat], NEW idx \in Slots, NEW qty \in Nat
    PROVE  CountAfter(Cardinality(ActiveSlots(q)), q[idx], qty)
              = Cardinality(ActiveSlots([q EXCEPT ![idx] = qty]))
<1> DEFINE r == [q EXCEPT ![idx] = qty]
<1>1. IsFiniteSet(ActiveSlots(q)) /\ Cardinality(ActiveSlots(q)) \in Nat
  BY ActiveSlotsFinite
<1>2. CASE q[idx] = 0 /\ qty > 0
  <2>1. ActiveSlots(r) = ActiveSlots(q) \cup {idx} /\ idx \notin ActiveSlots(q)
    BY <1>2 DEF ActiveSlots
  <2>2. ~(q[idx] > 0 /\ qty = 0)
    BY <1>2
  <2>3. Cardinality(ActiveSlots(r)) = Cardinality(ActiveSlots(q)) + 1
    BY <1>1, <2>1, FS_AddElement
  <2> QED BY <1>2, <2>2, <2>3 DEF CountAfter
<1>3. CASE q[idx] > 0 /\ qty = 0
  <2>1. ActiveSlots(r) = ActiveSlots(q) \ {idx} /\ idx \in ActiveSlots(q)
    BY <1>3 DEF ActiveSlots
  <2>2. ~(q[idx] = 0 /\ qty > 0)
    BY <1>3
  <2> QED BY <1>1, <1>3, <2>1, <2>2, FS_RemoveElement DEF CountAfter
<1>4. CASE ~(q[idx] = 0 /\ qty > 0) /\ ~(q[idx] > 0 /\ qty = 0)
  <2>1. ActiveSlots(r) = ActiveSlots(q)
    BY <1>4 DEF ActiveSlots
  <2> QED BY <1>4, <2>1 DEF CountAfter
<1> QED BY <1>2, <1>3, <1>4

\* The upward move and the downward rescan of bestHighIdx both end where a scan
\* of the whole array would.
LEMMA HighAfterWrite ==
    ASSUME NEW q \in [Slots -> Nat], NEW idx \in Slots, NEW qty \in Nat
    PROVE  HighAfter(LastActive(q, Size - 1), [q EXCEPT ![idx] = qty], idx, qty)
              = LastActive([q EXCEPT ![idx] = qty], Size - 1)
<1> DEFINE r  == [q EXCEPT ![idx] = qty]
           hi == LastActive(q, Size - 1)
<1>1. Size - 1 \in Int /\ \A j \in Slots : j \in Int /\ j >= 0 /\ j <= Size - 1
  BY SizeIsPositive DEF Slots
<1>2. \/ hi = NoSlot /\ \A j \in Slots : q[j] = 0
      \/ hi \in Slots /\ q[hi] > 0 /\ \A j \in Slots : j > hi => q[j] = 0
  BY <1>1, LastActiveIsLast
<1>3. r \in [Slots -> Nat] /\ r[idx] = qty /\ \A j \in Slots \ {idx} : r[j] = q[j]
  OBVIOUS
<1> HIDE DEF r, hi
<1>5. CASE qty > 0 /\ idx > hi
  <2>1. \A j \in Slots : j > idx => r[j] = 0
    BY <1>1, <1>2, <1>3, <1>5 DEF NoSlot
  <2>2. LastActive(r, Size - 1) = idx
    BY <1>3, <1>5, <2>1, LastActiveUnique
  <2> QED BY <1>5, <2>2 DEF HighAfter, r, hi
<1>6. CASE qty = 0 /\ idx = hi
  <2> DEFINE m == LastActive(r, hi)
  <2>1. hi \in Int
    BY <1>1, <1>6
  <2>2. \A j \in Slots : j > hi => r[j] = 0
    BY <1>1, <1>2, <1>3, <1>6
  <2>3. \/ m = NoSlot /\ \A j \in Slots : j <= hi => r[j] = 0
        \/ m \in Slots /\ m <= hi /\ r[m] > 0
           /\ \A j \in Slots : j > m /\ j <= hi => r[j] = 0
    BY <1>3, <2>1, LastActiveIsLast
  <2> HIDE DEF m
  <2>4. \/ m = NoSlot /\ \A j \in Slots : r[j] = 0
        \/ m \in Slots /\ r[m] > 0 /\ \A j \in Slots : j > m => r[j] = 0
    BY <1>1, <2>1, <2>2, <2>3
  <2>5. LastActive(r, Size - 1) = m
    BY <1>3, <2>4, LastActiveUnique
  <2>6. ~(qty > 0 /\ idx > hi)
    BY <1>6
  <2> QED BY <1>6, <2>5, <2>6 DEF HighAfter, m, r, hi
<1>7. CASE ~(qty > 0 /\ idx > hi) /\ ~(qty = 0 /\ idx = hi)
  <2>1. \/ hi = NoSlot /\ \A j \in Slots : r[j] = 0
        \/ hi \in Slots /\ r[hi] > 0 /\ \A j \in Slots : j > hi => r[j] = 0
    BY <1>1, <1>2, <1>3, <1>7 DEF NoSlot
  <2>2. LastActive(r, Size - 1) = hi
    BY <1>3, <2>1, LastActiveUnique
  <2> QED BY <1>7, <2>2 DEF HighAfter, r, hi
<1> QED BY <1>5, <1>6, <1>7

\* price_ladder.cpp:129-137 finds the least active slot.
LEMMA LowAfterWrite ==
    ASSUME NEW q \in [Slots -> Nat], NEW idx \in Slots, NEW qty \in Nat
    PROVE  LowAfter(FirstActive(q, 0), [q EXCEPT ![idx] = qty], idx, qty)
              = FirstActive([q EXCEPT ![idx] = qty], 0)
<1> DEFINE r  == [q EXCEPT ![idx] = qty]
           lo == FirstActive(q, 0)
<1>1. \A j \in Slots : j \in Int /\ j >= 0
  BY SizeIsPositive DEF Slots
<1>2. \/ lo = NoSlot /\ \A j \in Slots : q[j] = 0
      \/ lo \in Slots /\ q[lo] > 0 /\ \A j \in Slots : j < lo => q[j] = 0
  BY <1>1, FirstActiveIsFirst
<1>3. r \in [Slots -> Nat] /\ r[idx] = qty /\ \A j \in Slots \ {idx} : r[j] = q[j]
  OBVIOUS
<1> HIDE DEF r, lo
<1>5. CASE qty > 0 /\ (lo < 0 \/ idx < lo)
  <2>1. \A j \in Slots : j < idx => r[j] = 0
    BY <1>1, <1>2, <1>3, <1>5
  <2>2. FirstActive(r, 0) = idx
    BY <1>3, <1>5, <2>1, FirstActiveUnique
  <2> QED BY <1>5, <2>2 DEF LowAfter, r, lo
<1>6. CASE qty = 0 /\ idx = lo
  <2> DEFINE m == FirstActive(r, lo + 1)
  <2>1. lo \in Int /\ lo + 1 \in Int
    BY <1>1, <1>6
  <2>2. \A j \in Slots : j < lo + 1 => r[j] = 0
    BY <1>1, <1>2, <1>3, <1>6, <2>1
  <2>3. \/ m = NoSlot /\ \A j \in Slots : j >= lo + 1 => r[j] = 0
        \/ m \in Slots /\ m >= lo + 1 /\ r[m] > 0
           /\ \A j \in Slots : j < m /\ j >= lo + 1 => r[j] = 0
    BY <1>3, <2>1, FirstActiveIsFirst
  <2> HIDE DEF m
  <2>4. \/ m = NoSlot /\ \A j \in Slots : r[j] = 0
        \/ m \in Slots /\ r[m] > 0 /\ \A j \in Slots : j < m => r[j] = 0
    BY <1>1, <2>1, <2>2, <2>3
  <2>5. FirstActive(r, 0) = m
    BY <1>3, <2>4, FirstActiveUnique
  <2>6. ~(qty > 0 /\ (lo < 0 \/ idx < lo))
    BY <1>6
  <2> QED BY <1>6, <2>5, <2>6 DEF LowAfter, m, r, lo
<1>7. CASE ~(qty > 0 /\ (lo < 0 \/ idx < lo)) /\ ~(qty = 0 /\ idx = lo)
  <2>1. \/ lo = NoSlot /\ \A j \in Slots : r[j] = 0
        \/ lo \in Slots /\ r[lo] > 0 /\ \A j \in Slots : j < lo => r[j] = 0
    BY <1>1, <1>2, <1>3, <1>7 DEF NoSlot
  <2>2. FirstActive(r, 0) = lo
    BY <1>3, <2>1, FirstActiveUnique
  <2> QED BY <1>7, <2>2 DEF LowAfter, r, lo
<1> QED BY <1>5, <1>6, <1>7

\* Writing a slot of a consistent array leaves a consistent array.
LEMMA WriteSlotKeepsInvariant ==
    ASSUME NEW l, LadderInvariant(l), l.initialized,
           NEW idx \in Slots, NEW qty \in Nat
    PROVE  LadderInvariant(WriteSlot(l, idx, qty))
<1> DEFINE q == l.qtys
           r == [q EXCEPT ![idx] = qty]
           w == WriteSlot(l, idx, qty)
<1>1. q \in [Slots -> Nat] /\ r \in [Slots -> Nat] /\ l.basePrice \in Int
  BY DEF LadderInvariant, LadderType
<1>2. /\ w.initialized
      /\ w = [initialized |-> l.initialized, basePrice |-> l.basePrice, qtys |-> r,
              count |-> CountAfter(l.count, q[idx], qty),
              bestHighIdx |-> HighAfter(l.bestHighIdx, r, idx, qty),
              bestLowIdx |-> LowAfter(l.bestLowIdx, r, idx, qty)]
  <2> DEFINE c == CountAfter(l.count, q[idx], qty)
             h == HighAfter(l.bestHighIdx, r, idx, qty)
             o == LowAfter(l.bestLowIdx, r, idx, qty)
  <2>1. w = [l EXCEPT !.qtys = r, !.count = c, !.bestHighIdx = h, !.bestLowIdx = o]
    BY DEF WriteSlot
  <2> HIDE DEF r, w, c, h, o
  <2>2. l \in LadderType
    BY DEF LadderInvariant
  <2> QED BY <2>1, <2>2 DEF LadderType, c, h, o
<1>3. IndexConsistent(w)
  <2>1. CountAfter(l.count, q[idx], qty) = Cardinality(ActiveSlots(r))
    BY <1>1, CountAfterWrite DEF LadderInvariant, IndexConsistent
  <2>2. HighAfter(l.bestHighIdx, r, idx, qty) = LastActive(r, Size - 1)
    BY <1>1, HighAfterWrite DEF LadderInvariant, IndexConsistent
  <2>3. LowAfter(l.bestLowIdx, r, idx, qty) = FirstActive(r, 0)
    BY <1>1, LowAfterWrite DEF LadderInvariant, IndexConsistent
  <2> HIDE DEF r
  <2> QED BY <1>2, <2>1, <2>2, <2>3 DEF IndexConsistent
<1>4. /\ Cardinality(ActiveSlots(r)) \in Nat
      /\ LastActive(r, Size - 1) \in Slots \cup {NoSlot}
      /\ FirstActive(r, 0) \in Slots \cup {NoSlot}
  BY <1>1, ActiveSlotsFinite, LastActiveIsLast, FirstActiveIsFirst, SizeIsPositive
<1>5. w \in LadderType
  <2> HIDE DEF r, w
  <2>1. w.qtys = r
    BY <1>2
  <2>2. /\ w.count \in Nat
        /\ w.bestHighIdx \in Slots \cup {NoSlot}
        /\ w.bestLowIdx \in Slots \cup {NoSlot}
    BY <1>3, <1>4, <2>1 DEF IndexConsistent
  <2>3. l.initialized \in BOOLEAN
    BY DEF LadderInvariant, LadderType
  <2> QED BY <1>1, <1>2, <2>2, <2>3 DEF LadderType
<1> QED BY <1>2, <1>3, <1>5 DEF LadderInvariant, BlankUntilCentred

-----------------------------------------------------------------------------
(* Moving the window.                                                      *)

\* rebuildBestIndices makes count and indices describe the array.
LEMMA RebuildIsConsistent ==
    ASSUME NEW l, l \in LadderType
    PROVE  /\ rebuildBestIndices(l) \in LadderType
           /\ IndexConsistent(rebuildBestIndices(l))
           /\ rebuildBestIndices(l).initialized = l.initialized
           /\ rebuildBestIndices(l).basePrice = l.basePrice
           /\ rebuildBestIndices(l).qtys = l.qtys
<1>1. l.qtys \in [Slots -> Nat]
  BY DEF LadderType
<1>2. /\ Cardinality(ActiveSlots(l.qtys)) \in Nat
      /\ LastActive(l.qtys, Size - 1) \in Slots \cup {NoSlot}
      /\ FirstActive(l.qtys, 0) \in Slots \cup {NoSlot}
  BY <1>1, ActiveSlotsFinite, LastActiveIsLast, FirstActiveIsFirst, SizeIsPositive
<1> QED BY <1>1, <1>2 DEF rebuildBestIndices, LadderType, IndexConsistent

\* After the window has been placed for a price, that price has a slot.
LEMMA WindowedHoldsPrice ==
    ASSUME NEW l, LadderInvariant(l), NEW price \in Nat \ {0}
    PROVE  /\ LadderInvariant(Windowed(l, price))
           /\ Windowed(l, price).initialized
           /\ toIdx(Windowed(l, price), price) \in Slots
<1>1. CentredBase(price) \in Int
      /\ (price - CentredBase(price)) \div TickSize = HalfRange
      /\ HalfRange \in Slots
  BY CentreIsMiddleSlot, LadderAssumption DEF Slots, Size
<1>2. CASE ~l.initialized
  <2>1. Windowed(l, price) = initCenter(l, price)
    BY <1>2 DEF Windowed, inRange
  <2>2. /\ initCenter(l, price) \in LadderType
        /\ initCenter(l, price).initialized
        /\ initCenter(l, price).basePrice = CentredBase(price)
        /\ IndexConsistent(initCenter(l, price))
    BY <1>1 DEF initCenter, LadderInvariant, LadderType, IndexConsistent
  <2> QED BY <1>1, <2>1, <2>2 DEF LadderInvariant, BlankUntilCentred, toIdx
<1>3. CASE l.initialized /\ inRange(l, price)
  <2>1. Windowed(l, price) = l
    BY <1>3 DEF Windowed
  <2>2. price - l.basePrice \in Nat /\ toIdx(l, price) < Size
    BY <1>3 DEF inRange, LadderInvariant, LadderType
  <2>3. toIdx(l, price) \in Slots
    BY <2>2, QuotientOfNatural, LadderAssumption, SizeIsPositive DEF toIdx, Slots
  <2> QED BY <1>3, <2>1, <2>3
<1>4. CASE l.initialized /\ ~inRange(l, price)
  <2> DEFINE w == recenter(l, price)
  <2>1. Windowed(l, price) = w
    <3> HIDE DEF w
    <3>1. w = recenter(l, price) BY DEF w
    <3>2. Windowed(l, price) = recenter(l, price) BY <1>4, Zenon DEF Windowed
    <3> QED BY <3>1, <3>2
  <2>2. PICK moved \in [Slots -> Nat] :
          w = rebuildBestIndices([l EXCEPT !.basePrice = CentredBase(price), !.qtys = moved])
    <3> DEFINE shift == (CentredBase(price) - l.basePrice) \div TickSize
               keeps == shift # 0 /\ shift < Size /\ -shift < Size
               moved == [i \in Slots |-> IF keeps /\ i + shift \in Slots
                                         THEN l.qtys[i + shift] ELSE 0]
    <3>1. moved \in [Slots -> Nat]
      BY DEF LadderInvariant, LadderType
    <3> QED BY <3>1 DEF recenter
  <2> DEFINE m == [l EXCEPT !.basePrice = CentredBase(price), !.qtys = moved]
  <2>3. m \in LadderType /\ m.initialized /\ m.basePrice = CentredBase(price)
    BY <1>1, <1>4, <2>2 DEF LadderInvariant, LadderType
  <2> HIDE DEF m, w
  <2>4. w \in LadderType /\ IndexConsistent(w) /\ w.initialized
        /\ w.basePrice = CentredBase(price)
    BY <2>2, <2>3, RebuildIsConsistent DEF m
  <2> QED BY <1>1, <2>1, <2>4 DEF LadderInvariant, BlankUntilCentred, toIdx
<1> QED BY <1>2, <1>3, <1>4 DEF LadderInvariant, LadderType

-----------------------------------------------------------------------------
(* The operations of the class.                                            *)

\* A ladder that was just built satisfies the invariant.
LEMMA NewLadderInvariant == LadderInvariant(NewLadder)
<1> DEFINE q == [i \in Slots |-> 0]
<1>1. q \in [Slots -> Nat] /\ ActiveSlots(q) = {}
  BY DEF ActiveSlots
<1>2. Cardinality({}) = 0
  BY FS_EmptySet
<1>3. LastActive(q, Size - 1) = NoSlot /\ FirstActive(q, 0) = NoSlot
  BY <1>1, LastActiveUnique, FirstActiveUnique
<1> QED BY <1>1, <1>2, <1>3
        DEF NewLadder, LadderInvariant, LadderType, IndexConsistent, BlankUntilCentred

\* set() keeps the invariant, for every price and quantity.
LEMMA SetKeepsInvariant ==
    ASSUME NEW l, LadderInvariant(l), NEW price \in Nat \ {0}, NEW qty \in Nat
    PROVE  LadderInvariant(set(l, price, qty))
  BY WindowedHoldsPrice, WriteSlotKeepsInvariant DEF set

\* clear() keeps the invariant.
LEMMA ClearKeepsInvariant ==
    ASSUME NEW l, LadderInvariant(l)
    PROVE  LadderInvariant(clear(l))
<1> DEFINE blank == [i \in Slots |-> 0]
           e     == [l EXCEPT !.initialized = FALSE, !.qtys = blank, !.count = 0,
                              !.bestHighIdx = NoSlot, !.bestLowIdx = NoSlot]
<1>1. clear(l) = e
  <2>1. l \in LadderType BY DEF LadderInvariant
  <2>2. ASSUME ~l.initialized PROVE l.qtys = blank
    <3>1. l.qtys \in [Slots -> Nat] BY <2>1 DEF LadderType
    <3>2. \A i \in Slots : ~(l.qtys[i] > 0)
      BY <2>2 DEF LadderInvariant, BlankUntilCentred, ActiveSlots
    <3>3. \A i \in Slots : l.qtys[i] = 0 BY <3>1, <3>2
    <3> QED BY <3>1, <3>3
  <2> QED BY <2>1, <2>2 DEF clear, LadderType
<1>2. e \in LadderType /\ e.qtys = NewLadder.qtys /\ e.count = NewLadder.count
      /\ e.bestHighIdx = NewLadder.bestHighIdx /\ e.bestLowIdx = NewLadder.bestLowIdx
  BY DEF LadderInvariant, LadderType, NewLadder, NoSlot
<1>3. LadderInvariant(NewLadder) BY NewLadderInvariant
<1> HIDE DEF e
<1>4. LadderInvariant(e)
  BY <1>2, <1>3 DEF LadderInvariant, IndexConsistent, BlankUntilCentred, NewLadder
<1> QED BY <1>1, <1>4

-----------------------------------------------------------------------------
(* Queries.                                                                *)

\* Multiplying by the tick keeps the order.
LEMMA ProductOrder ==
    ASSUME NEW i \in Int, NEW j \in Int, NEW t \in Nat \ {0}
    PROVE  i < j <=> i * t < j * t
<1>1. ASSUME NEW a \in Int, NEW b \in Int, a < b PROVE a * t < b * t
  <2>1. (b - a) * t >= t
    <3>1. b - a - 1 \in Nat BY <1>1
    <3>2. (b - a - 1) * t \in Nat BY <3>1
    <3> QED BY <3>2
  <2> QED BY <2>1
<1>2. CASE i < j BY <1>1, <1>2
<1>3. CASE i = j BY <1>3
<1>4. CASE j < i
  <2>1. j * t < i * t BY <1>1, <1>4
  <2>2. i * t \in Int /\ j * t \in Int OBVIOUS
  <2> QED BY <1>4, <2>1, <2>2
<1> QED BY <1>2, <1>3, <1>4

\* Division by the tick, read as a comparison.
LEMMA QuotientOrder ==
    ASSUME NEW a \in Int, NEW j \in Int, NEW t \in Nat \ {0}
    PROVE  j <= a \div t <=> j * t <= a
<1> DEFINE q == a \div t
<1>1. q \in Int /\ q * t <= a /\ a < (q + 1) * t
  <2>1. a \div t \in Int /\ (a \div t) * t <= a /\ a < (a \div t) * t + t
    BY QuotientBounds
  <2>2. (q + 1) * t = q * t + t BY <2>1
  <2> QED BY <2>1, <2>2
<1> HIDE DEF q
<1>2. j * t \in Int /\ q * t \in Int /\ q + 1 \in Int /\ (q + 1) * t \in Int BY <1>1
<1>3. CASE j <= q
  <2>1. j * t <= q * t
    <3>1. ~(q < j) BY <1>1, <1>3
    <3>2. ~(q * t < j * t) BY <1>1, <3>1, ProductOrder
    <3> QED BY <1>2, <3>2
  <2>2. j * t <= a BY <1>1, <1>2, <2>1
  <2> QED BY <1>3, <2>2 DEF q
<1>4. CASE ~(j <= q)
  <2>1. ~(j < q + 1) BY <1>1, <1>4
  <2>2. ~(j * t < (q + 1) * t) BY <1>1, <2>1, ProductOrder
  <2>3. ~(j * t <= a) BY <1>1, <1>2, <2>2
  <2> QED BY <1>4, <2>3 DEF q
<1> QED BY <1>3, <1>4

\* A slot is found again by its price, and slots are ordered as their prices are.
LEMMA PricesOfSlots ==
    ASSUME NEW l, l.basePrice \in Int
    PROVE  /\ \A i \in Int : toPrice(l, i) \in Int /\ toIdx(l, toPrice(l, i)) = i
           /\ \A i, j \in Int : i < j <=> toPrice(l, i) < toPrice(l, j)
<1> DEFINE t == TickSize
           b == l.basePrice
<1>0. t \in Nat \ {0} /\ b \in Int BY LadderAssumption
<1>1. ASSUME NEW i \in Int PROVE toPrice(l, i) \in Int /\ toIdx(l, toPrice(l, i)) = i
  <2>1. i * t \in Int BY <1>0
  <2>2. (i * t) \div t = i BY <1>0, <2>1, QuotientUnique
  <2>3. (b + i * t) - b = i * t BY <1>0, <2>1
  <2>4. b + i * t \in Int BY <1>0, <2>1
  <2> QED BY <2>2, <2>3, <2>4 DEF toPrice, toIdx
<1>2. ASSUME NEW i \in Int, NEW j \in Int
      PROVE  i < j <=> toPrice(l, i) < toPrice(l, j)
  <2>1. i < j <=> i * t < j * t BY <1>0, ProductOrder
  <2>2. i * t \in Int /\ j * t \in Int BY <1>0
  <2>3. (b + i * t < b + j * t) <=> (i * t < j * t) BY <1>0, <2>2
  <2> QED BY <2>1, <2>3 DEF toPrice
<1> QED BY <1>1, <1>2

\* The active prices of a ladder and their quantities.
LEMMA LevelsOfLadder ==
    ASSUME NEW l, LadderInvariant(l)
    PROVE  /\ DOMAIN Levels(l) = {toPrice(l, i) : i \in ActiveSlots(l.qtys)}
           /\ \A i \in ActiveSlots(l.qtys) : Levels(l)[toPrice(l, i)] = l.qtys[i]
<1>1. l.basePrice \in Int BY DEF LadderInvariant, LadderType
<1>2. \A i \in ActiveSlots(l.qtys) : i \in Int
  BY SizeIsPositive DEF ActiveSlots, Slots
<1>3. \A i \in ActiveSlots(l.qtys) : toIdx(l, toPrice(l, i)) = i BY <1>1, <1>2, PricesOfSlots
<1> QED BY <1>3 DEF Levels

\* The extremum of a set of integers is the member that bounds it.
LEMMA ExtremaOfIntegers ==
    ASSUME NEW S, S \subseteq Int, NEW m \in S
    PROVE  /\ (\A p \in S : p <= m) => Max(S) = m
           /\ (\A p \in S : m <= p) => Min(S) = m
<1>1. ASSUME \A p \in S : p <= m PROVE Max(S) = m
  <2>1. \A p \in S : m >= p BY <1>1
  <2>2. Max(S) \in S /\ \A p \in S : Max(S) >= p BY <2>1 DEF Max
  <2> HIDE DEF Max
  <2>3. Max(S) \in Int /\ Max(S) >= m /\ Max(S) <= m BY <1>1, <2>2
  <2> QED BY <2>3
<1>2. ASSUME \A p \in S : m <= p PROVE Min(S) = m
  <2>1. \A p \in S : m =< p BY <1>2
  <2>2. Min(S) \in S /\ \A p \in S : Min(S) =< p BY <2>1 DEF Min
  <2>3. Min(S) \in Int /\ Min(S) <= m /\ m <= Min(S) BY <1>2, <2>2
  <2> QED BY <2>3
<1> QED BY <1>1, <1>2

\* Where the downward scan from slot k ends is the highest of the prices up to it.
LEMMA HighestUpTo ==
    ASSUME NEW l, LadderInvariant(l), NEW k \in Int, NEW S,
           S = {toPrice(l, i) : i \in {j \in ActiveSlots(l.qtys) : j <= k}}
    PROVE  PriceOfSlot(l, LastActive(l.qtys, k)) = HighestOf(S)
<1> DEFINE q == l.qtys
           n == LastActive(q, k)
<1>1. q \in [Slots -> Nat] /\ l.basePrice \in Int BY DEF LadderInvariant, LadderType
<1>2. \A i \in Slots : i \in Int /\ i # NoSlot BY SizeIsPositive DEF Slots, NoSlot
<1>3. \/ n = NoSlot /\ \A j \in Slots : j <= k => q[j] = 0
      \/ n \in Slots /\ n <= k /\ q[n] > 0 /\ \A j \in Slots : j > n /\ j <= k => q[j] = 0
  BY <1>1, LastActiveIsLast
<1> HIDE DEF n
<1>4. CASE n = NoSlot /\ \A j \in Slots : j <= k => q[j] = 0
  <2>1. S = {} BY <1>4 DEF ActiveSlots
  <2> QED BY <1>4, <2>1 DEF HighestOf, PriceOfSlot, n
<1>5. CASE n \in Slots /\ n <= k /\ q[n] > 0 /\ \A j \in Slots : j > n /\ j <= k => q[j] = 0
  <2>1. toPrice(l, n) \in S BY <1>5 DEF ActiveSlots
  <2>2. S \subseteq Int BY <1>1, <1>2, PricesOfSlots DEF ActiveSlots
  <2>3. ASSUME NEW p \in S PROVE p <= toPrice(l, n)
    <3>1. PICK j \in Slots : j <= k /\ q[j] > 0 /\ p = toPrice(l, j) BY DEF ActiveSlots
    <3>2. ~(n < j)
      <4>1. j \in Int /\ n \in Int BY <1>2, <1>5
      <4> QED BY <1>5, <3>1, <4>1
    <3>3. ~(toPrice(l, n) < toPrice(l, j)) BY <1>1, <1>2, <1>5, <3>2, PricesOfSlots
    <3>4. p \in Int /\ toPrice(l, n) \in Int BY <2>1, <2>2
    <3> QED BY <3>1, <3>3, <3>4
  <2>4. Max(S) = toPrice(l, n) BY <2>1, <2>2, <2>3, ExtremaOfIntegers
  <2>5. S # {} /\ n # NoSlot BY <1>2, <1>5, <2>1
  <2> QED BY <2>4, <2>5 DEF HighestOf, PriceOfSlot, n
<1> QED BY <1>3, <1>4, <1>5

\* Where the upward scan from slot k ends is the lowest of the prices from it on.
LEMMA LowestFrom ==
    ASSUME NEW l, LadderInvariant(l), NEW k \in Int, NEW S,
           S = {toPrice(l, i) : i \in {j \in ActiveSlots(l.qtys) : j >= k}}
    PROVE  PriceOfSlot(l, FirstActive(l.qtys, k)) = LowestOf(S)
<1> DEFINE q == l.qtys
           n == FirstActive(q, k)
<1>1. q \in [Slots -> Nat] /\ l.basePrice \in Int BY DEF LadderInvariant, LadderType
<1>2. \A i \in Slots : i \in Int /\ i # NoSlot BY SizeIsPositive DEF Slots, NoSlot
<1>3. \/ n = NoSlot /\ \A j \in Slots : j >= k => q[j] = 0
      \/ n \in Slots /\ n >= k /\ q[n] > 0 /\ \A j \in Slots : j < n /\ j >= k => q[j] = 0
  BY <1>1, FirstActiveIsFirst
<1> HIDE DEF n
<1>4. CASE n = NoSlot /\ \A j \in Slots : j >= k => q[j] = 0
  <2>1. S = {} BY <1>4 DEF ActiveSlots
  <2> QED BY <1>4, <2>1 DEF LowestOf, PriceOfSlot, n
<1>5. CASE n \in Slots /\ n >= k /\ q[n] > 0 /\ \A j \in Slots : j < n /\ j >= k => q[j] = 0
  <2>1. toPrice(l, n) \in S BY <1>5 DEF ActiveSlots
  <2>2. S \subseteq Int BY <1>1, <1>2, PricesOfSlots DEF ActiveSlots
  <2>3. ASSUME NEW p \in S PROVE toPrice(l, n) <= p
    <3>1. PICK j \in Slots : j >= k /\ q[j] > 0 /\ p = toPrice(l, j) BY DEF ActiveSlots
    <3>2. ~(j < n)
      <4>1. j \in Int /\ n \in Int BY <1>2, <1>5
      <4> QED BY <1>5, <3>1, <4>1
    <3>3. ~(toPrice(l, j) < toPrice(l, n)) BY <1>1, <1>2, <1>5, <3>2, PricesOfSlots
    <3>4. p \in Int /\ toPrice(l, n) \in Int BY <2>1, <2>2
    <3> QED BY <3>1, <3>3, <3>4
  <2>4. Min(S) = toPrice(l, n) BY <2>1, <2>2, <2>3, ExtremaOfIntegers
  <2>5. S # {} /\ n # NoSlot BY <1>2, <1>5, <2>1
  <2> QED BY <2>4, <2>5 DEF LowestOf, PriceOfSlot, n
<1> QED BY <1>3, <1>4, <1>5

\* The best of a side is the extremum of its levels.
LEMMA BestIsExtremum ==
    ASSUME NEW l, LadderInvariant(l)
    PROVE  /\ bestHigh(l) = HighestOf(DOMAIN Levels(l))
           /\ bestLow(l) = LowestOf(DOMAIN Levels(l))
<1> DEFINE act == ActiveSlots(l.qtys)
<1>1. \A j \in act : j \in Int /\ 0 <= j /\ j <= Size - 1
  BY SizeIsPositive DEF ActiveSlots, Slots
<1>2. {j \in act : j <= Size - 1} = act /\ {j \in act : j >= 0} = act BY <1>1
<1>3. DOMAIN Levels(l) = {toPrice(l, i) : i \in act} BY LevelsOfLadder
<1>4. Size - 1 \in Int /\ 0 \in Int BY SizeIsPositive
<1>5. l.bestHighIdx = LastActive(l.qtys, Size - 1) /\ l.bestLowIdx = FirstActive(l.qtys, 0)
  BY DEF LadderInvariant, IndexConsistent
<1> HIDE DEF act
<1>6. PriceOfSlot(l, LastActive(l.qtys, Size - 1)) = HighestOf(DOMAIN Levels(l))
  BY <1>2, <1>3, <1>4, HighestUpTo DEF act
<1>7. PriceOfSlot(l, FirstActive(l.qtys, 0)) = LowestOf(DOMAIN Levels(l))
  BY <1>2, <1>3, <1>4, LowestFrom DEF act
<1> QED BY <1>5, <1>6, <1>7 DEF bestHigh, bestLow

\* A side without a best level has no level.
LEMMA NoBestNoLevel ==
    ASSUME NEW l, LadderInvariant(l),
           ~l.initialized \/ l.bestHighIdx < 0 \/ l.bestLowIdx < 0
    PROVE  ActiveSlots(l.qtys) = {} /\ DOMAIN Levels(l) = {}
<1>1. l.qtys \in [Slots -> Nat] BY DEF LadderInvariant, LadderType
<1>2. \A j \in Slots : j \in Int /\ 0 <= j /\ j <= Size - 1 BY SizeIsPositive DEF Slots
<1>3. ActiveSlots(l.qtys) = {}
  <2>1. CASE ~l.initialized BY <2>1 DEF LadderInvariant, BlankUntilCentred
  <2>2. CASE l.bestHighIdx < 0
    <3>1. LastActive(l.qtys, Size - 1) \notin Slots
      BY <1>2, <2>2 DEF LadderInvariant, IndexConsistent
    <3>2. Size - 1 \in Int BY SizeIsPositive
    <3>3. \A j \in Slots : l.qtys[j] = 0 BY <1>1, <1>2, <3>1, <3>2, LastActiveIsLast
    <3> QED BY <3>3 DEF ActiveSlots
  <2>3. CASE l.bestLowIdx < 0
    <3>1. FirstActive(l.qtys, 0) \notin Slots
      BY <1>2, <2>3 DEF LadderInvariant, IndexConsistent
    <3>2. \A j \in Slots : l.qtys[j] = 0 BY <1>1, <1>2, <3>1, FirstActiveIsFirst
    <3> QED BY <3>2 DEF ActiveSlots
  <2> QED BY <2>1, <2>2, <2>3
<1> QED BY <1>3, LevelsOfLadder

\* prevBelow finds the highest level under any boundary, on the grid or off it.
LEMMA PrevBelowIsHighest ==
    ASSUME NEW l, LadderInvariant(l), NEW below \in Int
    PROVE  prevBelow(l, below) = HighestOf({p \in DOMAIN Levels(l) : p < below})
<1> DEFINE t == TickSize
           b == l.basePrice
           off == below - b
           k == (off - 1) \div t
           act == ActiveSlots(l.qtys)
           S == {p \in DOMAIN Levels(l) : p < below}
<1>0. t \in Nat \ {0} /\ b \in Int /\ off \in Int
  BY LadderAssumption DEF LadderInvariant, LadderType
<1>1. DOMAIN Levels(l) = {toPrice(l, i) : i \in act} BY LevelsOfLadder
<1>2. \A j \in act : j \in Int /\ j >= 0 BY SizeIsPositive DEF ActiveSlots, Slots
<1>3. CASE ~l.initialized \/ l.bestHighIdx < 0
  <2>1. S = {} BY <1>3, NoBestNoLevel
  <2> QED BY <1>3, <2>1 DEF prevBelow, HighestOf
<1>4. CASE off <= 0
  <2>1. ASSUME NEW j \in act PROVE ~(toPrice(l, j) < below)
    <3>1. j * t >= 0 BY <1>0, <1>2
    <3>2. j * t \in Int BY <1>0, <1>2
    <3>3. ~(b + j * t < below) BY <1>0, <1>4, <3>1, <3>2
    <3> QED BY <3>3 DEF toPrice
  <2>2. S = {} BY <1>1, <2>1
  <2> QED BY <1>4, <2>2 DEF prevBelow, HighestOf
<1>5. CASE l.initialized /\ ~(l.bestHighIdx < 0) /\ ~(off <= 0)
  <2>1. k \in Int BY <1>0, QuotientBounds
  <2>2. ASSUME NEW j \in act PROVE toPrice(l, j) < below <=> j <= k
    <3>1. j * t \in Int BY <1>0, <1>2
    <3>2. j <= k <=> j * t <= off - 1
      <4>1. off - 1 \in Int /\ j \in Int BY <1>0, <1>2
      <4> HIDE DEF off
      <4> QED BY <1>0, <4>1, QuotientOrder
    <3>3. (b + j * t < below) <=> (j * t <= off - 1) BY <1>0, <3>1
    <3> QED BY <3>2, <3>3 DEF toPrice
  <2> HIDE DEF k, act
  <2>3. S = {toPrice(l, i) : i \in {j \in act : j <= k}} BY <1>1, <2>2
  <2> HIDE DEF S
  <2>4. PriceOfSlot(l, LastActive(l.qtys, k)) = HighestOf(S)
    BY <2>1, <2>3, HighestUpTo DEF act
  <2>5. prevBelow(l, below) = PriceOfSlot(l, LastActive(l.qtys, k))
    BY <1>5 DEF prevBelow, k
  <2> QED BY <2>4, <2>5 DEF S
<1> QED BY <1>3, <1>4, <1>5

\* nextAbove finds the lowest level over any boundary, on the grid or off it.
LEMMA NextAboveIsLowest ==
    ASSUME NEW l, LadderInvariant(l), NEW above \in Int
    PROVE  nextAbove(l, above) = LowestOf({p \in DOMAIN Levels(l) : p > above})
<1> DEFINE t == TickSize
           b == l.basePrice
           off == above - b
           k == IF off < 0 THEN 0 ELSE off \div t + 1
           act == ActiveSlots(l.qtys)
           S == {p \in DOMAIN Levels(l) : p > above}
<1>0. t \in Nat \ {0} /\ b \in Int /\ off \in Int
  BY LadderAssumption DEF LadderInvariant, LadderType
<1>1. DOMAIN Levels(l) = {toPrice(l, i) : i \in act} BY LevelsOfLadder
<1>2. \A j \in act : j \in Int /\ j >= 0 BY SizeIsPositive DEF ActiveSlots, Slots
<1>3. CASE ~l.initialized \/ l.bestLowIdx < 0
  <2>1. S = {} BY <1>3, NoBestNoLevel
  <2> QED BY <1>3, <2>1 DEF nextAbove, LowestOf
<1>4. CASE l.initialized /\ ~(l.bestLowIdx < 0)
  <2>1. off \div t \in Int BY <1>0, QuotientBounds
  <2>2. k \in Int BY <2>1
  <2>3. ASSUME NEW j \in act PROVE toPrice(l, j) > above <=> j >= k
    <3>1. j * t \in Int BY <1>0, <1>2
    <3>2. CASE off < 0
      <4>1. j * t >= 0 BY <1>0, <1>2
      <4>2. b + j * t > above BY <1>0, <3>1, <3>2, <4>1
      <4>3. j >= k BY <1>2, <3>2
      <4> QED BY <4>2, <4>3 DEF toPrice
    <3>3. CASE ~(off < 0)
      <4>1. j <= off \div t <=> j * t <= off BY <1>0, <1>2, QuotientOrder
      <4>2. j >= k <=> ~(j <= off \div t) BY <1>2, <2>1, <3>3
      <4>3. (b + j * t > above) <=> ~(j * t <= off) BY <1>0, <3>1
      <4> QED BY <4>1, <4>2, <4>3 DEF toPrice
    <3> QED BY <3>2, <3>3
  <2> HIDE DEF k, act
  <2>4. S = {toPrice(l, i) : i \in {j \in act : j >= k}} BY <1>1, <2>3
  <2> HIDE DEF S
  <2>5. PriceOfSlot(l, FirstActive(l.qtys, k)) = LowestOf(S)
    BY <2>2, <2>4, LowestFrom DEF act
  <2>6. nextAbove(l, above) = PriceOfSlot(l, FirstActive(l.qtys, k))
    BY <1>4 DEF nextAbove, k
  <2> QED BY <2>5, <2>6 DEF S
<1> QED BY <1>3, <1>4

-----------------------------------------------------------------------------
(* The life of a ladder.                                                   *)

\* LadderInvariant holds in every state of a ladder that only set() and clear() touch.
LEMMA LadderInvariantHolds == LadderSpec => []LadderInvariant(ladder)
<1>1. LadderInit => LadderInvariant(ladder)
  BY NewLadderInvariant DEF LadderInit
<1>2. LadderInvariant(ladder) /\ [LadderNext]_ladder => LadderInvariant(ladder)'
  <2> SUFFICES ASSUME LadderInvariant(ladder), [LadderNext]_ladder
               PROVE  LadderInvariant(ladder')
    BY DEF LadderInvariant, IndexConsistent, BlankUntilCentred
  <2>1. CASE ClearAll
    BY <2>1, ClearKeepsInvariant DEF ClearAll
  <2>2. ASSUME NEW p \in Prices, NEW q \in Quantities, SetLevel(p, q)
        PROVE  LadderInvariant(ladder')
    BY <2>2, SetKeepsInvariant, InputAssumption DEF SetLevel
  <2>3. CASE UNCHANGED ladder
    BY <2>3
  <2> QED BY <2>1, <2>2, <2>3 DEF LadderNext
<1> QED BY <1>1, <1>2, PTL DEF LadderSpec

\* The record keeps its shape: no count goes below zero, no index leaves the array
\* (price_ladder.cpp:54-156).
THEOREM LadderTypeCorrect == LadderSpec => []LadderTypeOK
<1>1. LadderInvariant(ladder) => LadderTypeOK BY DEF LadderInvariant, LadderTypeOK
<1> QED BY <1>1, LadderInvariantHolds, PTL

\* The count and the best indices describe the array in every reachable state, and
\* an uncentred array is blank (set, clear and the recentring in
\* price_ladder.cpp:54-156).
THEOREM LadderStaysConsistent ==
    LadderSpec => [](IndicesDescribeArray /\ BlankWhenUninitialised)
<1>1. LadderInvariant(ladder) => IndicesDescribeArray /\ BlankWhenUninitialised
  BY DEF LadderInvariant, IndicesDescribeArray, BlankWhenUninitialised
<1> QED BY <1>1, LadderInvariantHolds, PTL

\* bestHigh, bestLow, prevBelow and nextAbove answer what a search of the whole side
\* would, for boundaries on the grid and off it, inside the window and beyond
\* (price_ladder.cpp:158-209).
THEOREM QueriesAreExact == LadderSpec => []QueriesAgreeWithSearch
<1>1. LadderInvariant(ladder) => QueriesAgreeWithSearch
  <2> SUFFICES ASSUME LadderInvariant(ladder) PROVE QueriesAgreeWithSearch
    OBVIOUS
  <2>1. \A b \in Prices : b \in Int BY InputAssumption
  <2>2. ASSUME NEW b \in Prices
        PROVE  /\ prevBelow(ladder, b) = HighestOf({p \in DOMAIN Levels(ladder) : p < b})
               /\ nextAbove(ladder, b) = LowestOf({p \in DOMAIN Levels(ladder) : p > b})
    BY <2>1, PrevBelowIsHighest, NextAboveIsLowest
  <2> QED BY <2>2, BestIsExtremum DEF QueriesAgreeWithSearch
<1> QED BY <1>1, LadderInvariantHolds, PTL

-----------------------------------------------------------------------------
(* The map a ladder implements, for prices on the tick grid as              *)
(* price_ladder.hpp:9 asks of them.                                         *)

OnGrid(p) == p \in Int /\ (p \div TickSize) * TickSize = p

PricesOnGrid == \A p \in Prices : OnGrid(p)

\* The middle of a window.
Centre(l) == IF l.initialized THEN l.basePrice + HalfRange * TickSize ELSE 0

\* The levels that a window with a given middle covers.
Kept(l, c) == {p \in DOMAIN Levels(l) : Window!Covers(c, p)}

\* A window is placed on the grid, around a price.
OnGridLadder(l) ==
    /\ LadderInvariant(l)
    /\ l.initialized => OnGrid(l.basePrice) /\ Centre(l) \in Nat \ {0}

\* The multiples of the tick are the prices on the grid.
LEMMA MultiplesOnGrid ==
    /\ \A n \in Int : OnGrid(n * TickSize)
    /\ \A p : OnGrid(p) => p \div TickSize \in Int /\ p = (p \div TickSize) * TickSize
<1>0. TickSize \in Nat \ {0} BY LadderAssumption
<1>1. ASSUME NEW n \in Int PROVE OnGrid(n * TickSize)
  <2>1. n * TickSize \in Int BY <1>0
  <2>2. (n * TickSize) \div TickSize = n BY <1>0, <2>1, QuotientUnique
  <2> QED BY <2>1, <2>2 DEF OnGrid
<1>2. ASSUME NEW p, OnGrid(p)
      PROVE  p \div TickSize \in Int /\ p = (p \div TickSize) * TickSize
  BY <1>0, <1>2, QuotientBounds DEF OnGrid
<1> QED BY <1>1, <1>2

\* The difference of two prices on the grid is a number of ticks.
LEMMA DifferenceOnGrid ==
    ASSUME NEW p, NEW r, OnGrid(p), OnGrid(r)
    PROVE  /\ (p - r) \div TickSize \in Int
           /\ r + ((p - r) \div TickSize) * TickSize = p
<1> DEFINE t == TickSize
           a == p \div t
           b == r \div t
<1>0. t \in Nat \ {0} BY LadderAssumption
<1>1. a \in Int /\ b \in Int /\ p = a * t /\ r = b * t BY MultiplesOnGrid
<1>2. p \in Int /\ r \in Int BY DEF OnGrid
<1> HIDE DEF a, b
<1>3. p - r = (a - b) * t BY <1>0, <1>1
<1>4. (p - r) \div t = a - b
  <2>1. p - r \in Int /\ a - b \in Int BY <1>1, <1>2
  <2>2. (a - b) * t <= p - r /\ p - r < (a - b) * t + t BY <1>0, <1>2, <1>3, <2>1
  <2> QED BY <1>0, <2>1, <2>2, QuotientUnique
<1>5. r + (a - b) * t = p BY <1>2, <1>3
<1> QED BY <1>1, <1>4, <1>5

\* A window covers exactly the prices of its slots.
LEMMA CoveredAreSlots ==
    ASSUME NEW b \in Int, NEW i \in Int
    PROVE  Window!Covers(b + HalfRange * TickSize, b + i * TickSize) <=> i \in Slots
<1> DEFINE t == TickSize
           h == HalfRange
<1>0. t \in Nat \ {0} /\ h \in Nat BY LadderAssumption
<1>1. i * t \in Int /\ h * t \in Int /\ (2 * h) * t = 2 * (h * t) BY <1>0
<1>2. 0 <= i <=> 0 <= i * t
  <2>1. i < 0 <=> i * t < 0 * t BY <1>0, ProductOrder
  <2>2. 0 * t = 0 BY <1>0
  <2> QED BY <1>1, <2>1, <2>2
<1>3. i <= 2 * h <=> i * t <= (2 * h) * t
  <2>1. 2 * h \in Int BY <1>0
  <2>2. 2 * h < i <=> (2 * h) * t < i * t BY <1>0, <2>1, ProductOrder
  <2> QED BY <1>0, <1>1, <2>1, <2>2
<1>4. i \in Slots <=> 0 <= i /\ i <= 2 * h BY <1>0 DEF Slots, Size
<1>5. (b + i * t) - (b + h * t) <= h * t <=> i * t <= 2 * (h * t) BY <1>1
<1>6. (b + h * t) - (b + i * t) <= h * t <=> 0 <= i * t BY <1>1
<1> QED BY <1>1, <1>2, <1>3, <1>4, <1>5, <1>6 DEF Window!Covers

\* On the grid a price is in range when the window covers it, and its slot is its own.
LEMMA InRangeIsCovered ==
    ASSUME NEW l, l.initialized, OnGrid(l.basePrice), NEW p, OnGrid(p)
    PROVE  /\ inRange(l, p) <=> Window!Covers(Centre(l), p)
           /\ inRange(l, p) <=> toIdx(l, p) \in Slots
           /\ toIdx(l, p) \in Int
           /\ toPrice(l, toIdx(l, p)) = p
<1> DEFINE b == l.basePrice
           i == toIdx(l, p)
<1>1. i \in Int /\ b + i * TickSize = p BY DifferenceOnGrid DEF toIdx
<1>2. b \in Int /\ p \in Int BY DEF OnGrid
<1>3. Window!Covers(Centre(l), p) <=> i \in Slots
  <2> HIDE DEF i
  <2>1. Window!Covers(b + HalfRange * TickSize, b + i * TickSize) <=> i \in Slots
    BY <1>1, <1>2, CoveredAreSlots
  <2> QED BY <1>1, <2>1 DEF Centre
<1>4. p >= b <=> i >= 0
  <2> HIDE DEF i
  <2>1. TickSize \in Nat \ {0} BY LadderAssumption
  <2>2. i < 0 <=> i * TickSize < 0 * TickSize BY <1>1, <2>1, ProductOrder
  <2>3. 0 * TickSize = 0 /\ i * TickSize \in Int BY <1>1, <2>1
  <2> QED BY <1>1, <1>2, <2>2, <2>3
<1>5. inRange(l, p) <=> i \in Slots
  BY <1>1, <1>4, SizeIsPositive DEF inRange, Slots
<1> QED BY <1>1, <1>3, <1>5 DEF toPrice

\* Two ladders with the same levels at the same prices have the same map.
LEMMA SameLevels ==
    ASSUME NEW l, LadderInvariant(l), NEW D, NEW f, f = [p \in D |-> f[p]],
           \A p : p \in D <=> \E i \in ActiveSlots(l.qtys) : p = toPrice(l, i),
           \A i \in ActiveSlots(l.qtys) : f[toPrice(l, i)] = l.qtys[i]
    PROVE  Levels(l) = f
<1>1. DOMAIN Levels(l) = D BY LevelsOfLadder
<1>2. \A p \in D : Levels(l)[p] = f[p] BY LevelsOfLadder
<1>3. Levels(l) = [p \in DOMAIN Levels(l) |-> Levels(l)[p]] BY DEF Levels
<1> QED BY <1>1, <1>2, <1>3

\* The fields of a ladder after a slot is written.
LEMMA FieldsOfWrite ==
    ASSUME NEW l, l \in LadderType, NEW idx \in Slots, NEW qty \in Nat
    PROVE  /\ WriteSlot(l, idx, qty).initialized = l.initialized
           /\ WriteSlot(l, idx, qty).basePrice = l.basePrice
           /\ WriteSlot(l, idx, qty).qtys = [l.qtys EXCEPT ![idx] = qty]
  BY DEF WriteSlot, LadderType

\* Writing a slot changes the map at its price: a quantity of zero removes the price.
LEMMA LevelsAfterWrite ==
    ASSUME NEW l, LadderInvariant(l), l.initialized, NEW idx \in Slots, NEW qty \in Nat
    PROVE  LET p == toPrice(l, idx)
               D == DOMAIN Levels(l)
           IN  /\ qty = 0 => Levels(WriteSlot(l, idx, qty))
                                = [r \in D \ {p} |-> Levels(l)[r]]
               /\ qty # 0 => Levels(WriteSlot(l, idx, qty))
                                = [r \in D \cup {p} |-> IF r = p THEN qty ELSE Levels(l)[r]]
<1> DEFINE p == toPrice(l, idx)
           D == DOMAIN Levels(l)
           w == WriteSlot(l, idx, qty)
           q == l.qtys
<1>1. l \in LadderType /\ q \in [Slots -> Nat] /\ l.basePrice \in Int
  BY DEF LadderInvariant, LadderType
<1>2. LadderInvariant(w) BY WriteSlotKeepsInvariant
<1>3. w.basePrice = l.basePrice /\ w.qtys = [q EXCEPT ![idx] = qty] BY <1>1, FieldsOfWrite
<1>4. \A i \in Slots : i \in Int BY SizeIsPositive DEF Slots
<1>5. \A i \in Slots : toPrice(w, i) = toPrice(l, i) BY <1>3 DEF toPrice
<1>6. \A i \in Slots : toPrice(l, i) = p <=> i = idx
  <2> SUFFICES ASSUME NEW i \in Slots PROVE toPrice(l, i) = p <=> i = idx
    OBVIOUS
  <2>1. i \in Int /\ idx \in Int BY <1>4
  <2>2. toIdx(l, toPrice(l, i)) = i /\ toIdx(l, toPrice(l, idx)) = idx
    BY <1>1, <2>1, PricesOfSlots
  <2> QED BY <2>2
<1>7. /\ \A r : r \in D <=> \E i \in Slots : q[i] > 0 /\ r = toPrice(l, i)
      /\ \A i \in Slots : q[i] > 0 => Levels(l)[toPrice(l, i)] = q[i]
  BY LevelsOfLadder, ZenonT(60) DEF ActiveSlots
<1> HIDE DEF w, p, D
<1>8. CASE qty = 0
  <2> DEFINE f == [r \in D \ {p} |-> Levels(l)[r]]
  <2>1. ActiveSlots(w.qtys) = {i \in Slots : i # idx /\ q[i] > 0}
    BY <1>1, <1>3, <1>8 DEF ActiveSlots
  <2>2. \A r : r \in D \ {p} <=> \E i \in ActiveSlots(w.qtys) : r = toPrice(w, i)
    BY <1>5, <1>6, <1>7, <2>1
  <2>3. \A i \in ActiveSlots(w.qtys) : f[toPrice(w, i)] = w.qtys[i]
    <3> SUFFICES ASSUME NEW i \in ActiveSlots(w.qtys) PROVE f[toPrice(w, i)] = w.qtys[i]
      OBVIOUS
    <3>1. i \in Slots /\ i # idx /\ q[i] > 0 BY <2>1
    <3>2. toPrice(w, i) = toPrice(l, i) /\ toPrice(l, i) \in D \ {p}
      BY <1>5, <1>6, <1>7, <3>1
    <3>3. Levels(l)[toPrice(l, i)] = q[i] BY <1>7, <3>1
    <3>4. w.qtys[i] = q[i] BY <1>1, <1>3, <3>1
    <3> QED BY <3>2, <3>3, <3>4
  <2>4. f = [r \in D \ {p} |-> f[r]] OBVIOUS
  <2> HIDE DEF f
  <2>5. Levels(w) = f BY <1>2, <2>2, <2>3, <2>4, SameLevels
  <2> QED BY <1>8, <2>5 DEF f, w, p, D
<1>9. CASE qty # 0
  <2> DEFINE f == [r \in D \cup {p} |-> IF r = p THEN qty ELSE Levels(l)[r]]
  <2>0. qty > 0 BY <1>9
  <2>1. ActiveSlots(w.qtys) = {i \in Slots : i = idx \/ q[i] > 0}
    BY <1>1, <1>3, <2>0 DEF ActiveSlots
  <2>2. \A r : r \in D \cup {p} <=> \E i \in ActiveSlots(w.qtys) : r = toPrice(w, i)
    BY <1>5, <1>6, <1>7, <2>1
  <2>3. \A i \in ActiveSlots(w.qtys) : f[toPrice(w, i)] = w.qtys[i]
    <3> SUFFICES ASSUME NEW i \in ActiveSlots(w.qtys) PROVE f[toPrice(w, i)] = w.qtys[i]
      OBVIOUS
    <3>1. i \in Slots /\ (i = idx \/ q[i] > 0) BY <2>1
    <3>2. CASE i = idx
      <4>1. toPrice(w, i) = p /\ w.qtys[i] = qty BY <1>1, <1>3, <1>5, <1>6, <3>1, <3>2
      <4> QED BY <4>1
    <3>3. CASE i # idx
      <4>1. toPrice(w, i) = toPrice(l, i) /\ toPrice(l, i) \in D /\ toPrice(l, i) # p
        BY <1>5, <1>6, <1>7, <3>1, <3>3
      <4>2. Levels(l)[toPrice(l, i)] = q[i] BY <1>7, <3>1, <3>3
      <4>3. w.qtys[i] = q[i] BY <1>1, <1>3, <3>1, <3>3
      <4> QED BY <4>1, <4>2, <4>3
    <3> QED BY <3>2, <3>3
  <2>4. f = [r \in D \cup {p} |-> f[r]] OBVIOUS
  <2> HIDE DEF f
  <2>5. Levels(w) = f BY <1>2, <2>2, <2>3, <2>4, SameLevels
  <2> QED BY <1>9, <2>5 DEF f, w, p, D
<1> QED BY <1>8, <1>9

\* The lemma of moving the window: the levels that it still covers keep their price
\* and quantity, and nothing else appears.
LEMMA LevelsAfterRecentre ==
    ASSUME NEW l, OnGridLadder(l), l.initialized,
           NEW p \in Nat \ {0}, OnGrid(p), ~inRange(l, p)
    PROVE  /\ LadderInvariant(recenter(l, p))
           /\ recenter(l, p).initialized
           /\ recenter(l, p).basePrice = CentredBase(p)
           /\ Levels(recenter(l, p)) = [r \in Kept(l, p) |-> Levels(l)[r]]
<1> DEFINE t == TickSize
           b == l.basePrice
           n == CentredBase(p)
           shift == (n - b) \div t
           w == recenter(l, p)
           q == l.qtys
<1>0. t \in Nat \ {0} /\ HalfRange \in Nat BY LadderAssumption
<1>1. l \in LadderType /\ q \in [Slots -> Nat] /\ b \in Int /\ LadderInvariant(l)
  BY DEF OnGridLadder, LadderInvariant, LadderType
<1>2. /\ LadderInvariant(w) /\ w.initialized /\ w.basePrice = n
  <2>1. Windowed(l, p) = w BY DEF Windowed
  <2>2. LadderInvariant(w) /\ w.initialized BY <1>1, <2>1, WindowedHoldsPrice
  <2>3. w.basePrice = n
    <3> DEFINE newQ == [i \in Slots |->
                  IF (shift # 0 /\ shift < Size /\ -shift < Size) /\ i + shift \in Slots
                  THEN q[i + shift] ELSE 0]
               m == [l EXCEPT !.basePrice = n, !.qtys = newQ]
    <3>1. w = rebuildBestIndices(m) BY DEF recenter
    <3>2. newQ \in [Slots -> Nat] BY <1>1
    <3>3. n \in Int BY CentreIsMiddleSlot
    <3> HIDE DEF newQ, n, w
    <3>4. m \in LadderType /\ m.basePrice = n BY <1>1, <3>2, <3>3 DEF LadderType
    <3> HIDE DEF m
    <3> QED BY <3>1, <3>4, RebuildIsConsistent
  <2> QED BY <2>2, <2>3
<1>3. OnGrid(n) /\ OnGrid(b) /\ n \in Int /\ n = p - HalfRange * t
  <2>1. n = p - HalfRange * t BY DEF CentredBase, OnGrid
  <2>2. p \div t \in Int /\ p = (p \div t) * t BY MultiplesOnGrid
  <2> DEFINE a == p \div t
  <2>3. a - HalfRange \in Int BY <1>0, <2>2
  <2> HIDE DEF a
  <2>4. p = a * t /\ a \in Int BY <2>2 DEF a
  <2>5. n = (a - HalfRange) * t BY <1>0, <2>1, <2>4
  <2>6. OnGrid(n) BY <2>3, <2>5, MultiplesOnGrid
  <2> QED BY <2>1, <2>6 DEF OnGrid, OnGridLadder
<1>4. shift \in Int /\ n = b + shift * t BY <1>3, DifferenceOnGrid
<1>5. shift # 0
  <2> SUFFICES ASSUME shift = 0 PROVE FALSE
    OBVIOUS
  <2>1. n = b
    <3> HIDE DEF shift, n
    <3> QED BY <1>0, <1>1, <1>4
  <2>2. toIdx(l, p) = HalfRange BY <2>1, CentreIsMiddleSlot DEF toIdx
  <2>3. toIdx(l, p) \in Slots BY <1>0, <2>2 DEF Slots, Size
  <2> QED BY <1>3, <2>3, InRangeIsCovered
<1>6. w.qtys = [i \in Slots |-> IF i + shift \in Slots THEN q[i + shift] ELSE 0]
  <2> DEFINE keeps == shift # 0 /\ shift < Size /\ -shift < Size
             newQ == [i \in Slots |-> IF keeps /\ i + shift \in Slots
                                      THEN q[i + shift] ELSE 0]
             m == [l EXCEPT !.basePrice = n, !.qtys = newQ]
  <2>1. w = rebuildBestIndices(m) BY DEF recenter
  <2>2. newQ \in [Slots -> Nat] BY <1>1
  <2>3. \A i \in Slots : i + shift \in Slots => keeps
    <3> HIDE DEF shift
    <3> QED BY <1>4, <1>5, SizeIsPositive DEF Slots
  <2>4. newQ = [i \in Slots |-> IF i + shift \in Slots THEN q[i + shift] ELSE 0]
    <3> HIDE DEF shift
    <3>1. \A i \in Slots : (keeps /\ i + shift \in Slots) = (i + shift \in Slots)
      BY <2>3
    <3> HIDE DEF keeps
    <3> QED BY <3>1
  <2> HIDE DEF newQ, n, w
  <2>5. m \in LadderType /\ m.qtys = newQ BY <1>1, <1>3, <2>2 DEF LadderType
  <2> HIDE DEF m
  <2>6. w.qtys = newQ BY <2>1, <2>5, RebuildIsConsistent
  <2> QED BY <2>4, <2>6
<1> HIDE DEF w, shift, n
<1>7. \A i \in Slots : i \in Int BY SizeIsPositive DEF Slots
<1>8. ASSUME NEW j \in Slots
      PROVE  /\ toPrice(l, j) = toPrice(w, j - shift)
             /\ Window!Covers(p, toPrice(l, j)) <=> j - shift \in Slots
  <2>1. j \in Int /\ j - shift \in Int BY <1>4, <1>7
  <2>2. (j - shift) * t = j * t - shift * t /\ j * t \in Int /\ shift * t \in Int
    BY <1>0, <1>4, <2>1
  <2>3. b + j * t = n + (j - shift) * t BY <1>1, <1>3, <1>4, <2>2
  <2>4. Window!Covers(n + HalfRange * t, n + (j - shift) * t) <=> j - shift \in Slots
    BY <1>3, <2>1, CoveredAreSlots
  <2>5. n + HalfRange * t = p
    <3>1. HalfRange * t \in Int BY <1>0
    <3> QED BY <1>3, <3>1
  <2> QED BY <1>2, <2>3, <2>4, <2>5 DEF toPrice
<1>9. ActiveSlots(w.qtys) = {i \in Slots : i + shift \in Slots /\ q[i + shift] > 0}
  BY <1>6 DEF ActiveSlots
<1>10. /\ \A r : r \in DOMAIN Levels(l) <=> \E j \in Slots : q[j] > 0 /\ r = toPrice(l, j)
       /\ \A j \in Slots : q[j] > 0 => Levels(l)[toPrice(l, j)] = q[j]
  <2>1. /\ DOMAIN Levels(l) = {toPrice(l, i) : i \in ActiveSlots(q)}
        /\ \A i \in ActiveSlots(q) : Levels(l)[toPrice(l, i)] = q[i]
    BY <1>1, LevelsOfLadder
  <2> QED BY <2>1 DEF ActiveSlots
<1> DEFINE f == [r \in Kept(l, p) |-> Levels(l)[r]]
<1>11. ASSUME NEW i \in ActiveSlots(w.qtys)
       PROVE  /\ i + shift \in Slots /\ q[i + shift] > 0
              /\ w.qtys[i] = q[i + shift]
              /\ toPrice(w, i) = toPrice(l, i + shift)
              /\ toPrice(w, i) \in Kept(l, p)
  <2>1. i \in Slots /\ i + shift \in Slots /\ q[i + shift] > 0 BY <1>9
  <2>2. (i + shift) - shift = i BY <1>4, <1>7, <2>1
  <2>3. toPrice(w, i) = toPrice(l, i + shift) /\ Window!Covers(p, toPrice(l, i + shift))
    BY <1>8, <2>1, <2>2
  <2>4. toPrice(l, i + shift) \in DOMAIN Levels(l) BY <1>10, <2>1
  <2>5. w.qtys[i] = q[i + shift] BY <1>6, <2>1
  <2> QED BY <2>1, <2>3, <2>4, <2>5 DEF Kept
<1>12. ASSUME NEW r \in Kept(l, p)
       PROVE  \E i \in ActiveSlots(w.qtys) : r = toPrice(w, i)
  <2>1. r \in DOMAIN Levels(l) /\ Window!Covers(p, r) BY DEF Kept
  <2>2. PICK j \in Slots : q[j] > 0 /\ r = toPrice(l, j) BY <1>10, <2>1
  <2>3. j - shift \in Slots /\ r = toPrice(w, j - shift) BY <1>8, <2>1, <2>2
  <2>4. (j - shift) + shift = j BY <1>4, <1>7
  <2>5. j - shift \in ActiveSlots(w.qtys) BY <1>9, <2>2, <2>3, <2>4
  <2> QED BY <2>3, <2>5
<1>13. \A i \in ActiveSlots(w.qtys) : f[toPrice(w, i)] = w.qtys[i]
  <2> SUFFICES ASSUME NEW i \in ActiveSlots(w.qtys) PROVE f[toPrice(w, i)] = w.qtys[i]
    OBVIOUS
  <2>1. Levels(l)[toPrice(l, i + shift)] = q[i + shift] BY <1>10, <1>11
  <2> QED BY <1>11, <2>1
<1>14. f = [r \in Kept(l, p) |-> f[r]] OBVIOUS
<1>15. \A r : r \in Kept(l, p) <=> \E i \in ActiveSlots(w.qtys) : r = toPrice(w, i)
  BY <1>11, <1>12
<1> HIDE DEF f
<1>16. Levels(w) = f BY <1>2, <1>13, <1>14, <1>15, SameLevels
<1> QED BY <1>2, <1>16 DEF f, w, n

\* A window covers all the levels of its own ladder.
LEMMA OwnWindowKeepsAll ==
    ASSUME NEW l, OnGridLadder(l), l.initialized
    PROVE  Kept(l, Centre(l)) = DOMAIN Levels(l)
<1> SUFFICES ASSUME NEW r \in DOMAIN Levels(l) PROVE Window!Covers(Centre(l), r)
  BY DEF Kept
<1>1. LadderInvariant(l) /\ OnGrid(l.basePrice) BY DEF OnGridLadder
<1>2. PICK i \in ActiveSlots(l.qtys) : r = toPrice(l, i)
  <2>1. DOMAIN Levels(l) = {toPrice(l, i) : i \in ActiveSlots(l.qtys)}
    BY <1>1, LevelsOfLadder
  <2> QED BY <2>1
<1>3. i \in Slots /\ i \in Int BY SizeIsPositive DEF ActiveSlots, Slots
<1>4. l.basePrice \in Int BY <1>1 DEF OnGrid
<1>5. Window!Covers(l.basePrice + HalfRange * TickSize, l.basePrice + i * TickSize)
  BY <1>3, <1>4, CoveredAreSlots
<1> QED BY <1>2, <1>5 DEF Centre, toPrice

\* Placing the window for a price: what the abstract map does with its centre.
LEMMA LevelsAfterWindowed ==
    ASSUME NEW l, OnGridLadder(l), NEW p \in Nat \ {0}, OnGrid(p)
    PROVE  LET c == IF Centre(l) = 0 \/ ~Window!Covers(Centre(l), p) THEN p ELSE Centre(l)
               w == Windowed(l, p)
           IN  /\ OnGridLadder(w) /\ w.initialized /\ Centre(w) = c
               /\ toIdx(w, p) \in Slots /\ toPrice(w, toIdx(w, p)) = p
               /\ Levels(w) = [r \in Kept(l, c) |-> Levels(l)[r]]
<1> DEFINE c == IF Centre(l) = 0 \/ ~Window!Covers(Centre(l), p) THEN p ELSE Centre(l)
           w == Windowed(l, p)
           t == TickSize
<1>0. t \in Nat \ {0} /\ HalfRange \in Nat BY LadderAssumption
<1>1. LadderInvariant(l) /\ l \in LadderType /\ l.initialized \in BOOLEAN
  BY DEF OnGridLadder, LadderInvariant, LadderType
<1>2. LadderInvariant(w) /\ w.initialized /\ toIdx(w, p) \in Slots
  BY <1>1, WindowedHoldsPrice
<1>3. /\ OnGrid(CentredBase(p)) /\ CentredBase(p) \in Int
      /\ CentredBase(p) + HalfRange * t = p
  <2>1. CentredBase(p) = p - HalfRange * t BY DEF CentredBase, OnGrid
  <2> DEFINE a == p \div t
  <2>2. a \in Int /\ p = a * t BY MultiplesOnGrid
  <2> HIDE DEF a
  <2>3. CentredBase(p) = (a - HalfRange) * t /\ a - HalfRange \in Int
    BY <1>0, <2>1, <2>2
  <2>4. OnGrid(CentredBase(p)) BY <2>3, MultiplesOnGrid
  <2>5. HalfRange * t \in Int BY <1>0
  <2> QED BY <2>1, <2>4, <2>5 DEF OnGrid
<1>4. /\ OnGrid(w.basePrice) /\ Centre(w) = c
      /\ Levels(w) = [r \in Kept(l, c) |-> Levels(l)[r]]
  <2>1. CASE ~l.initialized
    <3>1. w = initCenter(l, p) BY <2>1 DEF Windowed, inRange
    <3>2. w.basePrice = CentredBase(p) /\ w.qtys = l.qtys
      BY <1>1, <3>1 DEF initCenter, LadderType
    <3>3. Centre(l) = 0 BY <2>1 DEF Centre
    <3>4. Centre(w) = p BY <1>2, <1>3, <3>2 DEF Centre
    <3>5. DOMAIN Levels(l) = {} /\ ActiveSlots(w.qtys) = {}
      BY <1>1, <2>1, <3>2, NoBestNoLevel
    <3>6. DOMAIN Levels(w) = {} BY <1>2, <3>5, LevelsOfLadder
    <3>7. Kept(l, c) = {} BY <3>5 DEF Kept
    <3>8. Levels(w) = [r \in DOMAIN Levels(w) |-> Levels(w)[r]] BY DEF Levels
    <3> HIDE DEF w
    <3>9. [r \in {} |-> Levels(w)[r]] = [r \in {} |-> Levels(l)[r]] OBVIOUS
    <3> QED BY <1>3, <3>2, <3>3, <3>4, <3>6, <3>7, <3>8, <3>9
  <2>2. CASE l.initialized /\ inRange(l, p)
    <3>1. w = l BY <2>2 DEF Windowed
    <3>2. OnGrid(l.basePrice) /\ Centre(l) # 0 BY <2>2 DEF OnGridLadder
    <3>3. Window!Covers(Centre(l), p) BY <2>2, <3>2, InRangeIsCovered
    <3>4. Kept(l, Centre(l)) = DOMAIN Levels(l) BY <2>2, OwnWindowKeepsAll
    <3>5. Levels(l) = [r \in DOMAIN Levels(l) |-> Levels(l)[r]] BY DEF Levels
    <3> QED BY <3>1, <3>2, <3>3, <3>4, <3>5
  <2>3. CASE l.initialized /\ ~inRange(l, p)
    <3>1. w = recenter(l, p) BY <2>3 DEF Windowed
    <3>2. /\ w.basePrice = CentredBase(p)
          /\ Levels(w) = [r \in Kept(l, p) |-> Levels(l)[r]]
      BY <2>3, <3>1, LevelsAfterRecentre
    <3>3. ~Window!Covers(Centre(l), p) BY <2>3, InRangeIsCovered DEF OnGridLadder
    <3>4. Centre(w) = p BY <1>2, <1>3, <3>2 DEF Centre
    <3> QED BY <1>3, <3>2, <3>3, <3>4
  <2> QED BY <1>1, <2>1, <2>2, <2>3
<1>5. toPrice(w, toIdx(w, p)) = p BY <1>2, <1>4, InRangeIsCovered
<1>6. c \in Nat \ {0} BY DEF OnGridLadder, Centre
<1> HIDE DEF w, c
<1> QED BY <1>2, <1>4, <1>5, <1>6 DEF OnGridLadder, w, c

\* A set() changes the map as PriceWindow says, and leaves the window on the grid.
LEMMA SetFollowsWindow ==
    ASSUME NEW l, OnGridLadder(l), NEW p \in Nat \ {0}, OnGrid(p), NEW q \in Nat
    PROVE  LET c == IF Centre(l) = 0 \/ ~Window!Covers(Centre(l), p) THEN p ELSE Centre(l)
               k == Kept(l, c)
           IN  /\ OnGridLadder(set(l, p, q)) /\ Centre(set(l, p, q)) = c
               /\ Levels(set(l, p, q)) =
                    IF q = 0 THEN [r \in k \ {p} |-> Levels(l)[r]]
                    ELSE [r \in k \cup {p} |-> IF r = p THEN q ELSE Levels(l)[r]]
<1> DEFINE c == IF Centre(l) = 0 \/ ~Window!Covers(Centre(l), p) THEN p ELSE Centre(l)
           k == Kept(l, c)
           w == Windowed(l, p)
           i == toIdx(w, p)
           s == WriteSlot(w, i, q)
<1>1. /\ OnGridLadder(w) /\ w.initialized /\ Centre(w) = c
      /\ i \in Slots /\ toPrice(w, i) = p
      /\ Levels(w) = [r \in k |-> Levels(l)[r]]
  BY LevelsAfterWindowed
<1>2. set(l, p, q) = s BY DEF set
<1> HIDE DEF c, k, w, i
<1>3. LadderInvariant(w) /\ w \in LadderType BY <1>1 DEF OnGridLadder, LadderInvariant
<1>4. LadderInvariant(s) /\ s.initialized = w.initialized /\ s.basePrice = w.basePrice
  BY <1>1, <1>3, WriteSlotKeepsInvariant, FieldsOfWrite, ZenonT(60)
<1>5. OnGridLadder(s) /\ Centre(s) = c BY <1>1, <1>4 DEF OnGridLadder, Centre
<1>6. DOMAIN Levels(w) = k /\ \A r \in k : Levels(w)[r] = Levels(l)[r] BY <1>1
<1>7. \A idx \in Slots, n \in Nat :
        /\ n = 0 => Levels(WriteSlot(w, idx, n))
                      = [r \in DOMAIN Levels(w) \ {toPrice(w, idx)} |-> Levels(w)[r]]
        /\ n # 0 => Levels(WriteSlot(w, idx, n))
                      = [r \in DOMAIN Levels(w) \cup {toPrice(w, idx)} |->
                            IF r = toPrice(w, idx) THEN n ELSE Levels(w)[r]]
  BY <1>1, <1>3, LevelsAfterWrite
<1>8. CASE q = 0
  <2>0. Levels(s) = [r \in DOMAIN Levels(w) \ {toPrice(w, i)} |-> Levels(w)[r]]
    BY <1>1, <1>8, <1>7
  <2>1. Levels(s) = [r \in k \ {p} |-> Levels(w)[r]] BY <1>1, <1>6, <2>0
  <2>2. [r \in k \ {p} |-> Levels(w)[r]] = [r \in k \ {p} |-> Levels(l)[r]] BY <1>6
  <2> QED BY <1>2, <1>5, <1>8, <2>1, <2>2 DEF c, k
<1>9. CASE q # 0
  <2>0. Levels(s) = [r \in DOMAIN Levels(w) \cup {toPrice(w, i)} |->
                        IF r = toPrice(w, i) THEN q ELSE Levels(w)[r]]
    BY <1>1, <1>9, <1>7
  <2>1. Levels(s) = [r \in k \cup {p} |-> IF r = p THEN q ELSE Levels(w)[r]]
    BY <1>1, <1>6, <2>0
  <2>2. [r \in k \cup {p} |-> IF r = p THEN q ELSE Levels(w)[r]]
          = [r \in k \cup {p} |-> IF r = p THEN q ELSE Levels(l)[r]]
    BY <1>6
  <2> QED BY <1>2, <1>5, <1>9, <2>1, <2>2 DEF c, k
<1> QED BY <1>8, <1>9

\* A cleared ladder holds no level and has no centre.
LEMMA ClearFollowsWindow ==
    ASSUME NEW l, LadderInvariant(l), ~l.initialized
    PROVE  OnGridLadder(l) /\ Centre(l) = 0 /\ Levels(l) = << >>
<1>1. DOMAIN Levels(l) = {} BY NoBestNoLevel
<1>2. Levels(l) = [r \in {} |-> Levels(l)[r]]
  <2>1. Levels(l) = [r \in DOMAIN Levels(l) |-> Levels(l)[r]] BY DEF Levels
  <2> QED BY <1>1, <2>1
<1>3. << >> = [r \in {} |-> Levels(l)[r]] OBVIOUS
<1> QED BY <1>2, <1>3 DEF OnGridLadder, Centre

\* On the tick grid, the array with its window implements the map of PriceWindow:
\* shifting and zeroing slots forgets exactly the levels that the new window does not
\* cover, and nothing is lost, moved or resurrected (price_ladder.cpp:54-156).
THEOREM LadderImplementsWindow ==
    ASSUME PricesOnGrid
    PROVE  LadderSpec => ImplementsWindow
<1>1. LadderInit => OnGridLadder(ladder) /\ Window!Init
  <2> SUFFICES ASSUME LadderInit PROVE OnGridLadder(ladder) /\ Window!Init
    OBVIOUS
  <2>1. LadderInvariant(ladder) /\ ~ladder.initialized
    BY NewLadderInvariant DEF LadderInit, NewLadder
  <2> QED BY <2>1, ClearFollowsWindow DEF Centre, Window!Init, Window!NoCentre
<1>2. OnGridLadder(ladder) /\ [LadderNext]_ladder
        => OnGridLadder(ladder)' /\ [Window!Next]_(Window!vars)
  <2> SUFFICES ASSUME OnGridLadder(ladder), [LadderNext]_ladder
               PROVE  OnGridLadder(ladder') /\ [Window!Next]_(Window!vars)
    BY DEF OnGridLadder, LadderInvariant, IndexConsistent, BlankUntilCentred, Centre
  <2>1. CASE ClearAll
    <3>1. LadderInvariant(ladder') /\ ~ladder'.initialized
      <4>1. LadderInvariant(ladder) BY DEF OnGridLadder
      <4>2. ladder \in LadderType BY <4>1 DEF LadderInvariant
      <4>3. ~clear(ladder).initialized BY <4>2 DEF clear, LadderType
      <4> QED BY <2>1, <4>1, <4>3, ClearKeepsInvariant DEF ClearAll
    <3>2. OnGridLadder(ladder') /\ Centre(ladder') = 0 /\ Levels(ladder') = << >>
      BY <3>1, ClearFollowsWindow
    <3>3. Window!Clear BY <3>1, <3>2 DEF Window!Clear, Window!NoCentre
    <3> QED BY <3>2, <3>3 DEF Window!Next
  <2>2. ASSUME NEW p \in Prices, NEW q \in Quantities, SetLevel(p, q)
        PROVE  OnGridLadder(ladder') /\ Window!Next
    <3>1. p \in Nat \ {0} /\ q \in Nat /\ OnGrid(p) BY InputAssumption DEF PricesOnGrid
    <3> DEFINE c == IF Centre(ladder) = 0 \/ ~Window!Covers(Centre(ladder), p)
                    THEN p ELSE Centre(ladder)
               k == Kept(ladder, c)
    <3>2. /\ OnGridLadder(ladder') /\ Centre(ladder') = c
          /\ Levels(ladder') =
               IF q = 0 THEN [r \in k \ {p} |-> Levels(ladder)[r]]
               ELSE [r \in k \cup {p} |-> IF r = p THEN q ELSE Levels(ladder)[r]]
      BY <2>2, <3>1, SetFollowsWindow, ZenonT(60) DEF SetLevel
    <3>3. Window!Set(p, q)
      BY <3>2 DEF Window!Set, Window!NoCentre, Window!Restrict, Kept, Centre
    <3> QED BY <3>2, <3>3 DEF Window!Next
  <2>3. CASE UNCHANGED ladder
    BY <2>3 DEF Window!vars
  <2> QED BY <2>1, <2>2, <2>3 DEF LadderNext
<1> QED BY <1>1, <1>2, PTL DEF LadderSpec, ImplementsWindow, Window!Spec
=============================================================================
