---------------------------- MODULE Folding_proofs ----------------------------
(***************************************************************************)
(* Induction and recursion without operators as parameters: what the folds *)
(* of the models compute, unfolded one element at a time.  A property is a *)
(* set of naturals, a step is a function.                                  *)
(***************************************************************************)
EXTENDS Integers, Sequences, FiniteSetsExt, WellFoundedInduction, TLAPS

\* A non-empty set of naturals has a least member.
LEMMA LeastOfNaturals ==
    ASSUME NEW T, T \subseteq Nat, T # {}
    PROVE  \E x \in T : \A y \in T : x =< y
<1> DEFINE R == {ss \in Nat \X Nat : ss[1] < ss[2]}
<1>1. IsWellFoundedOn(R, Nat)
  BY NatLessThanWellFounded DEF OpToRel
<1>2. PICK x \in T : \A y \in T : ~(<<y, x>> \in R)
  <2> HIDE DEF R
  <2> QED BY <1>1, WFMin
<1>3. \A y \in T : ~(y < x)
  BY <1>2
<1> QED BY <1>3

\* A set that has 0 and, below n, the successor of each of its members has all of 0 .. n.
LEMMA InductionUpTo ==
    ASSUME NEW n \in Nat, NEW T, 0 \in T,
           \A m \in 0 .. n : m \in T /\ m < n => m + 1 \in T
    PROVE  0 .. n \subseteq T
<1> SUFFICES ASSUME ~(0 .. n \subseteq T) PROVE FALSE
  OBVIOUS
<1> DEFINE Missing == {m \in 0 .. n : m \notin T}
<1>1. Missing \subseteq Nat /\ Missing # {} OBVIOUS
<1>2. PICK m \in Missing : \A k \in Missing : m =< k BY <1>1, LeastOfNaturals
<1>3. m \in Nat /\ m # 0 /\ m <= n /\ m \notin T OBVIOUS
<1>4. m - 1 \in 0 .. n /\ m - 1 < n BY <1>3
<1>5. m - 1 \notin Missing BY <1>2, <1>3
<1>6. m - 1 \in T BY <1>4, <1>5
<1>7. (m - 1) + 1 \in T BY <1>4, <1>6
<1> QED BY <1>3, <1>7

\* The greatest of the first numbers.
LEMMA MaxOfInterval ==
    ASSUME NEW n \in Nat, NEW s, s \subseteq 1 .. n, s # {}
    PROVE  /\ Max(s) \in s /\ \A i \in s : i <= Max(s)
           /\ \A i \in s : (\A j \in s : j <= i) => i = Max(s)
<1> DEFINE U == {n - i : i \in s}
<1>0. \A i \in s : i \in Nat /\ i <= n OBVIOUS
<1>1. U \subseteq Nat /\ U # {}
  <2>1. PICK e \in s : TRUE OBVIOUS
  <2>2. n - e \in U BY <2>1
  <2>3. \A i \in s : n - i \in Nat BY <1>0
  <2> QED BY <2>2, <2>3
<1>2. PICK u \in U : \A v \in U : u =< v BY <1>1, LeastOfNaturals
<1>3. PICK i \in s : u = n - i OBVIOUS
<1>4. \A j \in s : i >= j
  <2> SUFFICES ASSUME NEW j \in s PROVE i >= j
    OBVIOUS
  <2>1. n - j \in U OBVIOUS
  <2>2. n - i =< n - j BY <1>2, <1>3, <2>1
  <2> QED BY <1>0, <2>2
<1>5. Max(s) \in s /\ \A j \in s : Max(s) >= j BY <1>4 DEF Max
<1>6. ASSUME NEW j \in s, \A k \in s : k <= j PROVE j = Max(s)
  <2>1. Max(s) <= j /\ j <= Max(s) BY <1>5, <1>6
  <2>2. Max(s) \in Nat /\ j \in Nat BY <1>0, <1>5
  <2> QED BY <2>1, <2>2
<1>7. \A j \in s : j <= Max(s)
  <2> SUFFICES ASSUME NEW j \in s PROVE j <= Max(s)
    OBVIOUS
  <2> QED BY <1>0, <1>5
<1> QED BY <1>5, <1>6, <1>7

\* F is the iteration behind FoldLeft: step takes an index and what has been folded.
IsIteration(F, n, base, step) ==
    F = [s \in SUBSET (1 .. n) |->
            IF s = {} THEN base ELSE step[Max(s)][F[s \ {Max(s)}]]]

\* There is one, for every step that stays in its range.
LEMMA IterationExists ==
    ASSUME NEW n \in Nat, NEW X, NEW base \in X, NEW step \in [1 .. n -> [X -> X]]
    PROVE  \E F \in [SUBSET (1 .. n) -> X] : IsIteration(F, n, base, step)
<1> DEFINE Steps(F, s) == IF s = {} THEN base ELSE step[Max(s)][F[s \ {Max(s)}]]
           T == {m \in 0 .. n : \E F \in [SUBSET (1 .. m) -> X] :
                    \A s \in SUBSET (1 .. m) : F[s] = Steps(F, s)}
<1>1. 0 \in T
  <2> DEFINE F == [s \in SUBSET (1 .. 0) |-> base]
  <2>1. 1 .. 0 = {} OBVIOUS
  <2>2. F \in [SUBSET (1 .. 0) -> X] OBVIOUS
  <2>3. \A s \in SUBSET (1 .. 0) : F[s] = Steps(F, s) BY <2>1
  <2> HIDE DEF F, Steps
  <2>4. \E G \in [SUBSET (1 .. 0) -> X] : \A s \in SUBSET (1 .. 0) : G[s] = Steps(G, s)
    <3> WITNESS F \in [SUBSET (1 .. 0) -> X]
    <3> QED BY <2>3
  <2>5. 0 \in 0 .. n OBVIOUS
  <2> QED BY <2>4, <2>5
<1>2. ASSUME NEW m \in 0 .. n, m \in T, m < n PROVE m + 1 \in T
  <2>1. PICK F \in [SUBSET (1 .. m) -> X] : \A s \in SUBSET (1 .. m) : F[s] = Steps(F, s)
    BY <1>2
  <2> DEFINE k == m + 1
             G == [s \in SUBSET (1 .. k) |-> IF k \in s THEN step[k][F[s \ {k}]] ELSE F[s]]
  <2>2. k \in 1 .. n /\ 1 .. k = (1 .. m) \cup {k} /\ k \notin 1 .. m BY <1>2
  <2> HIDE DEF k
  <2>3. \A s \in SUBSET (1 .. k) : s \ {k} \in SUBSET (1 .. m) /\ (k \notin s => s \in SUBSET (1 .. m))
    BY <2>2
  <2>4. G \in [SUBSET (1 .. k) -> X]
    <3> SUFFICES ASSUME NEW s \in SUBSET (1 .. k)
                 PROVE  (IF k \in s THEN step[k][F[s \ {k}]] ELSE F[s]) \in X
      OBVIOUS
    <3>1. F[s \ {k}] \in X BY <2>3
    <3>2. step[k][F[s \ {k}]] \in X BY <2>2, <3>1
    <3> QED BY <2>3, <3>2
  <2>5. ASSUME NEW s \in SUBSET (1 .. k) PROVE G[s] = Steps(G, s)
    <3>1. CASE k \in s
      <4>1. Max(s) = k
        <5>1. \A j \in s : j <= k BY <2>2
        <5>2. k \in Nat /\ s \subseteq 1 .. k /\ s # {} BY <2>2, <3>1
        <5> QED BY <3>1, <5>1, <5>2, MaxOfInterval
      <4>2. G[s] = step[k][F[s \ {k}]] BY <3>1
      <4>3. G[s \ {k}] = F[s \ {k}]
        <5>1. s \ {k} \in SUBSET (1 .. k) OBVIOUS
        <5> QED BY <5>1
      <4> QED BY <3>1, <4>1, <4>2, <4>3
    <3>2. CASE k \notin s
      <4>1. s \in SUBSET (1 .. m) BY <2>3, <3>2
      <4>2. G[s] = Steps(F, s) BY <2>1, <3>2, <4>1
      <4>3. s # {} => G[s \ {Max(s)}] = F[s \ {Max(s)}]
        <5>1. s \ {Max(s)} \in SUBSET (1 .. k) /\ k \notin s \ {Max(s)} BY <3>2
        <5> QED BY <5>1
      <4> QED BY <4>2, <4>3
    <3> QED BY <3>1, <3>2
  <2>6. k \in 0 .. n BY <2>2
  <2> HIDE DEF G, Steps
  <2>7. k \in T BY <2>4, <2>5, <2>6
  <2> QED BY <2>7 DEF k
<1>3. 0 .. n \subseteq T
  <2> HIDE DEF T
  <2> QED BY <1>1, <1>2, InductionUpTo
<1>4. n \in T
  <2> HIDE DEF T
  <2>1. n \in 0 .. n OBVIOUS
  <2> QED BY <1>3, <2>1
<1>5. PICK F \in [SUBSET (1 .. n) -> X] : \A s \in SUBSET (1 .. n) : F[s] = Steps(F, s)
  BY <1>4
<1>6. F = [s \in SUBSET (1 .. n) |-> F[s]] OBVIOUS
<1>7. F = [s \in SUBSET (1 .. n) |-> Steps(F, s)] BY <1>5, <1>6
<1> QED BY <1>7 DEF IsIteration

\* Its values on the first numbers: one step at a time.
LEMMA IterationUnfolds ==
    ASSUME NEW n \in Nat, NEW base, NEW step, NEW F, IsIteration(F, n, base, step)
    PROVE  /\ F[1 .. 0] = base
           /\ \A i \in 1 .. n : F[1 .. i] = step[i][F[1 .. i - 1]]
<1>1. \A s \in SUBSET (1 .. n) :
        F[s] = IF s = {} THEN base ELSE step[Max(s)][F[s \ {Max(s)}]]
  <2> DEFINE rhs(s) == IF s = {} THEN base ELSE step[Max(s)][F[s \ {Max(s)}]]
  <2>1. F = [s \in SUBSET (1 .. n) |-> rhs(s)] BY DEF IsIteration
  <2> HIDE DEF rhs
  <2>2. \A s \in SUBSET (1 .. n) : F[s] = rhs(s) BY <2>1
  <2> QED BY <2>2 DEF rhs
<1>2. F[1 .. 0] = base
  <2>1. 1 .. 0 = {} /\ 1 .. 0 \in SUBSET (1 .. n) OBVIOUS
  <2> QED BY <1>1, <2>1
<1>3. ASSUME NEW i \in 1 .. n PROVE F[1 .. i] = step[i][F[1 .. i - 1]]
  <2>1. 1 .. i \in SUBSET (1 .. n) /\ i \in 1 .. i /\ (1 .. i) \ {i} = 1 .. i - 1 OBVIOUS
  <2>2. Max(1 .. i) = i
    <3>1. \A j \in 1 .. i : j <= i OBVIOUS
    <3> QED BY <2>1, <3>1, MaxOfInterval
  <2> QED BY <1>1, <2>1, <2>2
<1> QED BY <1>2, <1>3

\* What is folded one element at a time never leaves a set that the steps keep.
LEMMA IterationStays ==
    ASSUME NEW n \in Nat, NEW X, NEW F, F[1 .. 0] \in X,
           \A i \in 1 .. n : F[1 .. i - 1] \in X => F[1 .. i] \in X
    PROVE  F[1 .. n] \in X
<1> DEFINE T == {i \in 0 .. n : F[1 .. i] \in X}
<1>1. 0 \in T OBVIOUS
<1>2. ASSUME NEW m \in 0 .. n, m \in T, m < n PROVE m + 1 \in T
  <2>1. m + 1 \in 1 .. n /\ m + 1 \in 0 .. n /\ (m + 1) - 1 = m BY <1>2
  <2>2. F[1 .. m] \in X BY <1>2
  <2> QED BY <2>1, <2>2
<1>3. 0 .. n \subseteq T
  <2> HIDE DEF T
  <2> QED BY <1>1, <1>2, InductionUpTo
<1>4. n \in T
  <2> HIDE DEF T
  <2>1. n \in 0 .. n OBVIOUS
  <2> QED BY <1>3, <2>1
<1> QED BY <1>4

\* A function on 0 .. n can be defined by recursion.
LEMMA RecursionExists ==
    ASSUME NEW n \in Nat, NEW X, NEW base \in X, NEW step \in [X -> X]
    PROVE  \E F \in [0 .. n -> X] :
              F = [m \in 0 .. n |-> IF m = 0 THEN base ELSE step[F[m - 1]]]
<1> DEFINE Steps == [i \in 1 .. n |-> step]
<1>1. Steps \in [1 .. n -> [X -> X]] OBVIOUS
<1>2. PICK G \in [SUBSET (1 .. n) -> X] : IsIteration(G, n, base, Steps)
  <2> HIDE DEF Steps
  <2> QED BY <1>1, IterationExists
<1>3. G[1 .. 0] = base /\ \A i \in 1 .. n : G[1 .. i] = step[G[1 .. i - 1]]
  <2>1. G[1 .. 0] = base /\ \A i \in 1 .. n : G[1 .. i] = Steps[i][G[1 .. i - 1]]
    <3> HIDE DEF Steps
    <3> QED BY <1>2, IterationUnfolds
  <2> QED BY <2>1
<1> DEFINE F == [m \in 0 .. n |-> G[1 .. m]]
<1>4. F \in [0 .. n -> X]
  <2>1. \A m \in 0 .. n : 1 .. m \in SUBSET (1 .. n) OBVIOUS
  <2> QED BY <2>1
<1>5. ASSUME NEW m \in 0 .. n PROVE F[m] = IF m = 0 THEN base ELSE step[F[m - 1]]
  <2>1. CASE m = 0 BY <1>3, <2>1
  <2>2. CASE m # 0
    <3>1. m \in 1 .. n /\ m - 1 \in 0 .. n BY <2>2
    <3> QED BY <1>3, <2>2, <3>1
  <2> QED BY <2>1, <2>2
<1> HIDE DEF F
<1>6. F = [m \in 0 .. n |-> IF m = 0 THEN base ELSE step[F[m - 1]]]
  <2> DEFINE rhs(m) == IF m = 0 THEN base ELSE step[F[m - 1]]
  <2>1. F = [m \in 0 .. n |-> F[m]] BY <1>4
  <2>2. \A m \in 0 .. n : F[m] = rhs(m) BY <1>5
  <2> HIDE DEF rhs
  <2>3. F = [m \in 0 .. n |-> rhs(m)] BY <2>1, <2>2
  <2> QED BY <2>3 DEF rhs
<1> QED BY <1>4, <1>6

\* A recursion on 0 .. n, by its values.
Recurs(F, n, base, step) == F[0] = base /\ \A m \in 1 .. n : F[m] = step[F[m - 1]]

\* What is defined by recursion has one value for each argument.
LEMMA RecursionIsUnique ==
    ASSUME NEW n \in Nat, NEW k \in 0 .. n, NEW base, NEW step, NEW F, NEW G,
           Recurs(F, n, base, step), Recurs(G, k, base, step)
    PROVE  F[k] = G[k]
<1> DEFINE T == {m \in 0 .. k : F[m] = G[m]}
<1>1. 0 \in T BY DEF Recurs
<1>2. ASSUME NEW m \in 0 .. k, m \in T, m < k PROVE m + 1 \in T
  <2>1. m + 1 \in 1 .. k /\ m + 1 \in 1 .. n /\ m + 1 \in 0 .. k /\ (m + 1) - 1 = m BY <1>2
  <2>2. F[m + 1] = step[F[m]] BY <2>1 DEF Recurs
  <2>3. G[m + 1] = step[G[m]] BY <2>1 DEF Recurs
  <2> QED BY <1>2, <2>1, <2>2, <2>3
<1>3. 0 .. k \subseteq T
  <2> HIDE DEF T
  <2>1. k \in Nat OBVIOUS
  <2> QED BY <1>1, <1>2, <2>1, InductionUpTo
<1>4. k \in 0 .. k OBVIOUS
<1> QED BY <1>3, <1>4

\* A function on the naturals can be defined by recursion.
IsRecursion(f, base, step) == f = [n \in Nat |-> IF n = 0 THEN base ELSE step[f[n - 1]]]

LEMMA RecursionOnNaturals ==
    ASSUME NEW X, NEW base \in X, NEW step \in [X -> X]
    PROVE  \E f \in [Nat -> X] : IsRecursion(f, base, step)
<1> DEFINE Part(n) == CHOOSE F \in [0 .. n -> X] : Recurs(F, n, base, step)
           f == [n \in Nat |-> Part(n)[n]]
<1>1. ASSUME NEW n \in Nat PROVE Part(n) \in [0 .. n -> X] /\ Recurs(Part(n), n, base, step)
  <2>1. PICK F \in [0 .. n -> X] :
          F = [m \in 0 .. n |-> IF m = 0 THEN base ELSE step[F[m - 1]]]
    BY RecursionExists
  <2>2. \A m \in 0 .. n : F[m] = IF m = 0 THEN base ELSE step[F[m - 1]]
    <3> DEFINE rhs(m) == IF m = 0 THEN base ELSE step[F[m - 1]]
    <3>1. F = [m \in 0 .. n |-> rhs(m)] BY <2>1
    <3> HIDE DEF rhs
    <3>2. \A m \in 0 .. n : F[m] = rhs(m) BY <3>1
    <3> QED BY <3>2 DEF rhs
  <2>3. Recurs(F, n, base, step) BY <2>2 DEF Recurs
  <2>4. \E H \in [0 .. n -> X] : Recurs(H, n, base, step) BY <2>3
  <2> QED BY <2>4
<1> HIDE DEF Part
<1>2. f \in [Nat -> X]
  <2> SUFFICES ASSUME NEW n \in Nat PROVE Part(n)[n] \in X
    OBVIOUS
  <2>1. n \in 0 .. n OBVIOUS
  <2> QED BY <1>1, <2>1
<1>3. ASSUME NEW n \in Nat PROVE f[n] = IF n = 0 THEN base ELSE step[f[n - 1]]
  <2>1. CASE n = 0 BY <1>1, <2>1 DEF Recurs
  <2>2. CASE n # 0
    <3>1. n - 1 \in Nat /\ n \in 1 .. n /\ n - 1 \in 0 .. n BY <2>2
    <3>2. Part(n)[n] = step[Part(n)[n - 1]] BY <1>1, <3>1 DEF Recurs
    <3>3. Part(n)[n - 1] = Part(n - 1)[n - 1]
      <4>1. Recurs(Part(n), n, base, step) /\ Recurs(Part(n - 1), n - 1, base, step)
        BY <1>1, <3>1
      <4> QED BY <3>1, <4>1, RecursionIsUnique
    <3> QED BY <2>2, <3>1, <3>2, <3>3
  <2> QED BY <2>1, <2>2
<1> HIDE DEF f
<1>4. f = [n \in Nat |-> IF n = 0 THEN base ELSE step[f[n - 1]]]
  <2> DEFINE rhs(n) == IF n = 0 THEN base ELSE step[f[n - 1]]
  <2>1. f = [n \in Nat |-> f[n]] BY <1>2
  <2>2. \A n \in Nat : f[n] = rhs(n) BY <1>3
  <2> HIDE DEF rhs
  <2>3. f = [n \in Nat |-> rhs(n)] BY <2>1, <2>2
  <2> QED BY <2>3 DEF rhs
<1> QED BY <1>2, <1>4 DEF IsRecursion
=============================================================================
