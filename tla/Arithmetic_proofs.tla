---------------------------- MODULE Arithmetic_proofs ----------------------------
(***************************************************************************)
(* The arithmetic of books and metrics, for a word of any width, and what   *)
(* is read from a text and printed into one, for any base and any number of *)
(* places.                                                                 *)
(***************************************************************************)
EXTENDS Conversions, Folding_proofs, SequenceTheorems, TLAPS

LEMMA WordsAreIntegers ==
    /\ WordMax \in Nat /\ WordMax > 0 /\ WordMin \in Int /\ WordMin = -WordMax - 1
    /\ \A a : a \in Word <=> a \in Int /\ WordMin <= a /\ a <= WordMax
  BY WordAssumption DEF WordMin, Word

\* The order of a and the quotient of m by b tells whether a * b exceeds m.
LEMMA QuotientBounds ==
    ASSUME NEW m \in Nat, NEW b \in Nat, b > 0
    PROVE  /\ m \div b \in Nat
           /\ b * (m \div b) <= m
           /\ m < b * (m \div b + 1)
  BY SMTT(20)

LEMMA ProductExceeds ==
    ASSUME NEW m \in Nat, NEW a \in Nat, NEW b \in Nat, b > 0
    PROVE  a > m \div b <=> a * b > m
<1> DEFINE q == m \div b
<1>1. q \in Nat /\ b * q <= m /\ m < b * (q + 1)
  BY QuotientBounds
<1> HIDE DEF q
<1>2. ASSUME a > q PROVE a * b > m
  <2>1. a * b >= (q + 1) * b
    BY <1>1, <1>2, SMTT(20)
  <2> QED BY <1>1, <2>1, SMTT(20)
<1>3. ASSUME a <= q PROVE a * b <= m
  <2>1. a * b <= q * b
    BY <1>1, <1>3, SMTT(20)
  <2> QED BY <1>1, <2>1, SMTT(20)
<1>4. a > q <=> a * b > m
  <2>1. a * b \in Int
    OBVIOUS
  <2> QED BY <1>1, <1>2, <1>3, <2>1
<1> QED BY <1>4 DEF q

\* The product of words of opposite signs, as that of natural numbers.
LEMMA ProductOfOpposites ==
    ASSUME NEW a \in Int, NEW b \in Int
    PROVE  /\ a * (-b) = -(a * b) /\ (-a) * b = -(a * b) /\ (-a) * (-b) = a * b
           /\ a * b = b * a /\ a * b \in Int
  BY SMTT(20)

\* The four tests of safeMultiply, one for each pair of signs.
LEMMA MultiplyTestIsExact ==
    ASSUME NEW a \in Word, NEW b \in Word
    PROVE  MultiplyOverflows(a, b) <=> a * b \notin Word
<1>1. a \in Int /\ b \in Int /\ WordMin \in Int /\ WordMax \in Nat /\ -WordMin \in Nat
  BY WordsAreIntegers
<1>2. a * b \in Int
  BY <1>1
<1>3. CASE a > 0 /\ b > 0
  <2>1. Quotient(WordMax, b) = WordMax \div b
    BY <1>1, <1>3 DEF Quotient, Abs
  <2>2. a > WordMax \div b <=> a * b > WordMax
    BY <1>1, <1>3, ProductExceeds
  <2>3. a * b > 0
    BY <1>1, <1>3, SMTT(20)
  <2> QED BY <1>1, <1>2, <1>3, <2>1, <2>2, <2>3, WordsAreIntegers DEF MultiplyOverflows
<1>4. CASE a < 0 /\ b < 0
  <2>1. Quotient(WordMax, b) = -(WordMax \div (-b))
    BY <1>1, <1>4 DEF Quotient, Abs
  <2>2. WordMax \div (-b) \in Int
    BY <1>1, <1>4, QuotientBounds
  <2>3. -a > WordMax \div (-b) <=> (-a) * (-b) > WordMax
    BY <1>1, <1>4, ProductExceeds
  <2>4. (-a) * (-b) = a * b
    BY <1>1, ProductOfOpposites
  <2>5. a * b > 0
    BY <1>1, <1>4, SMTT(20)
  <2>6. a < -(WordMax \div (-b)) <=> a * b > WordMax
    BY <1>1, <2>2, <2>3, <2>4
  <2> QED BY <1>1, <1>2, <1>4, <2>1, <2>5, <2>6, WordsAreIntegers DEF MultiplyOverflows
<1>5. CASE a > 0 /\ b < 0
  <2>1. Quotient(WordMin, a) = -((-WordMin) \div a)
    BY <1>1, <1>5, WordsAreIntegers DEF Quotient, Abs
  <2>2. (-WordMin) \div a \in Int
    BY <1>1, <1>5, QuotientBounds
  <2>3. -b > (-WordMin) \div a <=> (-b) * a > -WordMin
    BY <1>1, <1>5, ProductExceeds
  <2>4. (-b) * a = -(a * b)
    BY <1>1, ProductOfOpposites
  <2>5. a * b < 0
    BY <1>1, <1>5, SMTT(20)
  <2>6. b < -((-WordMin) \div a) <=> a * b < WordMin
    BY <1>1, <1>2, <2>2, <2>3, <2>4
  <2> QED BY <1>1, <1>2, <1>5, <2>1, <2>5, <2>6, WordsAreIntegers DEF MultiplyOverflows
<1>6. CASE a < 0 /\ b > 0
  <2>1. Quotient(WordMin, b) = -((-WordMin) \div b)
    BY <1>1, <1>6, WordsAreIntegers DEF Quotient, Abs
  <2>2. (-WordMin) \div b \in Int
    BY <1>1, <1>6, QuotientBounds
  <2>3. -a > (-WordMin) \div b <=> (-a) * b > -WordMin
    BY <1>1, <1>6, ProductExceeds
  <2>4. (-a) * b = -(a * b)
    BY <1>1, ProductOfOpposites
  <2>5. a * b < 0
    BY <1>1, <1>6, SMTT(20)
  <2>6. a < -((-WordMin) \div b) <=> a * b < WordMin
    BY <1>1, <1>2, <2>2, <2>3, <2>4
  <2> QED BY <1>1, <1>2, <1>6, <2>1, <2>5, <2>6, WordsAreIntegers DEF MultiplyOverflows
<1>7. CASE a = 0 \/ b = 0
  <2>1. a * b = 0
    BY <1>1, <1>7
  <2> QED BY <1>1, <1>7, <2>1, WordsAreIntegers DEF MultiplyOverflows
<1> QED BY <1>1, <1>3, <1>4, <1>5, <1>6, <1>7

LEMMA SaturatingOperations ==
    ASSUME NEW a \in Word, NEW b \in Word
    PROVE  /\ checkedAdd(a, b) = Clamp(a + b)
           /\ checkedSubtract(a, b) = Clamp(a - b)
           /\ checkedMultiply(a, b) = Clamp(a * b)
<1>1. a \in Int /\ b \in Int /\ a \in WordMin .. WordMax /\ b \in WordMin .. WordMax
  BY WordsAreIntegers
<1>2. checkedAdd(a, b) = Clamp(a + b)
  BY <1>1, WordsAreIntegers DEF checkedAdd, Clamp
<1>3. checkedSubtract(a, b) = Clamp(a - b)
  BY <1>1, WordsAreIntegers DEF checkedSubtract, Clamp
<1>4. checkedMultiply(a, b) = Clamp(a * b)
  BY DEF checkedMultiply, Clamp
<1> QED BY <1>2, <1>3, <1>4

LEMMA ThrowingOperations ==
    ASSUME NEW a \in Word, NEW b \in Word
    PROVE  /\ safeAdd(a, b) = ExactOrThrow(a + b)
           /\ safeSubstract(a, b) = ExactOrThrow(a - b)
           /\ safeMultiply(a, b) = ExactOrThrow(a * b)
<1>1. a \in Int /\ b \in Int /\ a \in WordMin .. WordMax /\ b \in WordMin .. WordMax
  BY WordsAreIntegers
<1>2. safeAdd(a, b) = ExactOrThrow(a + b)
  BY <1>1, WordsAreIntegers DEF safeAdd, ExactOrThrow
<1>3. safeSubstract(a, b) = ExactOrThrow(a - b)
  BY <1>1, WordsAreIntegers DEF safeSubstract, ExactOrThrow
<1>4. safeMultiply(a, b) = ExactOrThrow(a * b)
  BY MultiplyTestIsExact DEF safeMultiply, ExactOrThrow
<1> QED BY <1>2, <1>3, <1>4

-----------------------------------------------------------------------------
Operands == left \in Word /\ right \in Word

LEMMA OperandsAreWords == Spec => []Operands
<1>1. Init => Operands
  BY DEF Init, Operands
<1>2. Operands /\ [Next]_vars => Operands'
  BY DEF Next, Arrives, vars, Operands
<1> QED BY <1>1, <1>2, PTL DEF Spec

\* Whatever the two words, a saturating operation returns the word nearest to the
\* true result (checked_arith.hpp:8-27).
THEOREM SaturationIsNearest == Spec => []SaturatesAtBothEnds
<1>1. Operands => SaturatesAtBothEnds
  BY SaturatingOperations DEF Operands, SaturatesAtBothEnds
<1> QED BY <1>1, OperandsAreWords, PTL

\* The operations through which every price and quantity is scaled throw exactly
\* when the true result is no word (safe_arithmetic.hpp:6-50): no check is too
\* strict, and none lets a wrapped value through.
THEOREM OverflowAlwaysThrows == Spec => []ThrowsExactlyOnOverflow
<1>1. Operands => ThrowsExactlyOnOverflow
  BY ThrowingOperations DEF Operands, ThrowsExactlyOnOverflow
<1> QED BY <1>1, OperandsAreWords, PTL

-----------------------------------------------------------------------------
(* Powers of the base.                                                     *)

\* Products of integers, for the steps that multiply.
LEMMA Products ==
    /\ \A a, b \in Int : a * b \in Int /\ a * b = b * a
    /\ \A a, b \in Nat : a * b \in Nat
    /\ \A a, b, c \in Int : (a * b) * c = a * (b * c)
    /\ \A a, b, c \in Int : (a + b) * c = a * c + b * c
    /\ \A a, b, c \in Int : c * (a + b) = c * a + c * b
    /\ \A a \in Int : 1 * a = a /\ a * 1 = a /\ 0 * a = 0 /\ a * 0 = 0
BY SMTT(20)

LEMMA ProductsGrow ==
    ASSUME NEW a \in Nat, NEW b \in Nat, NEW c \in Nat, a <= b
    PROVE  a * c <= b * c
<1>1. PICK d \in Nat : b = a + d
  <2>1. b - a \in Nat /\ b = a + (b - a) OBVIOUS
  <2> QED BY <2>1
<1>2. b * c = a * c + d * c BY <1>1, Products
<1>3. PICK x \in Nat : x = a * c BY Products
<1>4. PICK y \in Nat : y = d * c BY Products
<1>5. PICK z \in Int : z = b * c BY Products
<1> QED BY <1>2, <1>3, <1>4, <1>5

LEMMA BaseFacts ==
    /\ Base \in Nat /\ Base >= 2 /\ Places \in Nat
    /\ Power[Places] <= WordMax
BY DecimalAssumption

LEMMA PowerUnfolds ==
    /\ Power \in [Nat -> Nat] /\ Power[0] = 1
    /\ \A n \in Nat : Power[n + 1] = Base * Power[n]
<1> DEFINE Body(f) == [n \in Nat |-> IF n = 0 THEN 1 ELSE Base * f[n - 1]]
           step == [x \in Nat |-> Base * x]
           Chosen == CHOOSE f : f = Body(f)
<1>1. step \in [Nat -> Nat] BY BaseFacts, Products
<1>2. PICK f \in [Nat -> Nat] : IsRecursion(f, 1, step)
  <2>1. 1 \in Nat OBVIOUS
  <2> HIDE DEF step
  <2> QED BY <1>1, <2>1, RecursionOnNaturals
<1>3. f = Body(f)
  <2>1. ASSUME NEW n \in Nat, n # 0 PROVE step[f[n - 1]] = Base * f[n - 1]
    <3>1. f[n - 1] \in Nat
      <4>1. n - 1 \in Nat BY <2>1
      <4> QED BY <4>1
    <3> QED BY <3>1
  <2> QED BY <1>2, <2>1 DEF IsRecursion
<1>4. Chosen = Body(Chosen)
  <2> HIDE DEF Body
  <2> QED BY <1>3
<1>5. Power = Chosen BY DEF Power
<1>6. \A n \in Nat : Power[n] = IF n = 0 THEN 1 ELSE Base * Power[n - 1]
  <2> DEFINE rhs(n) == IF n = 0 THEN 1 ELSE Base * Power[n - 1]
  <2>1. Power = [n \in Nat |-> rhs(n)] BY <1>4, <1>5
  <2> HIDE DEF rhs
  <2>2. \A n \in Nat : Power[n] = rhs(n) BY <2>1
  <2> QED BY <2>2 DEF rhs
<1>7. Power[0] = 1 BY <1>6
<1>8. ASSUME NEW n \in Nat PROVE Power[n + 1] = Base * Power[n]
  <2>1. n + 1 \in Nat /\ n + 1 # 0 /\ (n + 1) - 1 = n OBVIOUS
  <2> QED BY <1>6, <2>1
<1>9. ASSUME NEW n \in Nat PROVE Power[n] \in Nat
  <2> DEFINE T == {m \in 0 .. n : Power[m] \in Nat}
  <2>1. 0 \in T BY <1>7
  <2>2. ASSUME NEW m \in 0 .. n, m \in T, m < n PROVE m + 1 \in T
    <3>1. Power[m + 1] = Base * Power[m] BY <1>8
    <3>2. Base * Power[m] \in Nat BY <2>2, BaseFacts, Products
    <3> QED BY <2>2, <3>1, <3>2
  <2>3. 0 .. n \subseteq T
    <3> HIDE DEF T
    <3> QED BY <2>1, <2>2, InductionUpTo
  <2> QED BY <2>3
<1>10. Power \in [Nat -> Nat]
  <2>1. Power = [n \in Nat |-> Power[n]] BY <1>4, <1>5
  <2> QED BY <1>9, <2>1
<1> QED BY <1>7, <1>8, <1>10

\* A power exceeds its exponent, and is not less than a lower one.
LEMMA PowerGrows ==
    ASSUME NEW n \in Nat
    PROVE  Power[n] \in Nat /\ Power[n] > n /\ Power[n + 1] >= Power[n]
<1>1. \A m \in Nat : Power[m] \in Nat BY PowerUnfolds
<1> DEFINE T == {m \in 0 .. n : Power[m] > m}
<1>2. 0 \in T BY PowerUnfolds
<1>3. ASSUME NEW m \in Nat PROVE Power[m + 1] >= 2 * Power[m]
  <2>1. PICK p \in Nat : p = Power[m] BY <1>1
  <2>2. Power[m + 1] = Base * p BY <2>1, PowerUnfolds
  <2>3. 2 * p <= Base * p BY BaseFacts, ProductsGrow
  <2> QED BY <2>1, <2>2, <2>3, <1>1
<1>4. ASSUME NEW m \in 0 .. n, m \in T, m < n PROVE m + 1 \in T
  <2>1. PICK p \in Nat : p = Power[m] BY <1>1
  <2>2. PICK r \in Nat : r = Power[m + 1] BY <1>1
  <2>3. p > m /\ r >= 2 * p BY <1>3, <1>4, <2>1, <2>2
  <2>4. r > m + 1 BY <2>3
  <2> QED BY <1>4, <2>2, <2>4
<1>5. 0 .. n \subseteq T
  <2> HIDE DEF T
  <2> QED BY <1>2, <1>4, InductionUpTo
<1>6. Power[n] > n BY <1>5
<1>7. Power[n + 1] >= Power[n]
  <2>1. PICK p \in Nat : p = Power[n] BY <1>1
  <2>2. PICK r \in Nat : r = Power[n + 1] BY <1>1
  <2>3. r >= 2 * p BY <1>3, <2>1, <2>2
  <2>4. r >= p BY <2>3
  <2> QED BY <2>1, <2>2, <2>4
<1> QED BY <1>1, <1>6, <1>7

\* Powers multiply by adding their exponents.
LEMMA PowerOfSum ==
    ASSUME NEW a \in Nat, NEW b \in Nat
    PROVE  Power[a + b] = Power[a] * Power[b]
<1>1. \A m \in Nat : Power[m] \in Nat BY PowerUnfolds
<1> DEFINE T == {m \in 0 .. b : Power[a + m] = Power[a] * Power[m]}
<1>2. 0 \in T
  <2>1. a + 0 = a /\ Power[0] = 1 BY PowerUnfolds
  <2>2. Power[a] * 1 = Power[a] BY <1>1, Products
  <2> QED BY <2>1, <2>2
<1>3. ASSUME NEW m \in 0 .. b, m \in T, m < b PROVE m + 1 \in T
  <2>1. PICK p \in Nat : p = Power[a] BY <1>1
  <2>2. PICK q \in Nat : q = Power[m] BY <1>1
  <2>3. a + m \in Nat /\ a + (m + 1) = (a + m) + 1 OBVIOUS
  <2>4. Power[a + (m + 1)] = Base * (p * q) BY <1>3, <2>1, <2>2, <2>3, PowerUnfolds
  <2>5. Power[m + 1] = Base * q BY <2>2, PowerUnfolds
  <2>6. PICK B \in Nat : B = Base BY BaseFacts
  <2>7. B * (p * q) = p * (B * q) BY SMTT(20)
  <2>8. Power[a + (m + 1)] = Power[a] * Power[m + 1] BY <2>1, <2>4, <2>5, <2>6, <2>7
  <2> QED BY <1>3, <2>8
<1>4. 0 .. b \subseteq T
  <2> HIDE DEF T
  <2> QED BY <1>2, <1>3, InductionUpTo
<1> QED BY <1>4

-----------------------------------------------------------------------------
(* The value of a row of digits.                                           *)

\* h has the values of the first digits of t.
Reads(h, t) ==
    /\ h \in [0 .. Len(t) -> Nat] /\ h[0] = 0
    /\ \A i \in 1 .. Len(t) : h[i] = h[i - 1] * Base + t[i]

LEMMA DigitType == Digits = 0 .. Base - 1 /\ Digits \subseteq Nat /\ 0 \in Digits
BY BaseFacts DEF Digits

LEMMA DigitsUnfold ==
    ASSUME NEW t \in Seq(Digits)
    PROVE  \E h : Reads(h, t) /\ DigitsValue(t) = h[Len(t)]
<1> DEFINE n == Len(t)
           Step == [i \in 1 .. n |-> [x \in Nat |-> x * Base + t[i]]]
           Body(F) == [s \in SUBSET (1 .. n) |->
                         IF s = {} THEN 0 ELSE F[s \ {Max(s)}] * Base + t[Max(s)]]
           Chosen == CHOOSE F : F = Body(F)
<1>0. n \in Nat /\ DOMAIN t = 1 .. n /\ \A i \in 1 .. n : t[i] \in Nat
  BY LenProperties, ElementOfSeq, DigitType
<1>1. DigitsValue(t) = Chosen[1 .. n]
  BY <1>0 DEF DigitsValue, FoldLeft, MapThenFoldSet
<1>2. Step \in [1 .. n -> [Nat -> Nat]]
  <2>1. ASSUME NEW i \in 1 .. n, NEW x \in Nat PROVE x * Base + t[i] \in Nat
    <3>1. PICK p \in Nat : p = x * Base BY BaseFacts, Products
    <3>2. PICK d \in Nat : d = t[i] BY <1>0
    <3> QED BY <3>1, <3>2
  <2> QED BY <2>1
<1>3. PICK F \in [SUBSET (1 .. n) -> Nat] : IsIteration(F, n, 0, Step)
  <2>1. 0 \in Nat OBVIOUS
  <2> HIDE DEF Step
  <2> QED BY <1>0, <1>2, <2>1, IterationExists
<1>4. F = Body(F)
  <2>1. ASSUME NEW s \in SUBSET (1 .. n), s # {}
        PROVE  Step[Max(s)][F[s \ {Max(s)}]] = F[s \ {Max(s)}] * Base + t[Max(s)]
    <3>1. Max(s) \in 1 .. n BY <1>0, <2>1, MaxOfInterval
    <3>2. F[s \ {Max(s)}] \in Nat BY <1>3
    <3> QED BY <3>1, <3>2
  <2> QED BY <1>3, <2>1 DEF IsIteration
<1>5. Chosen = Body(Chosen)
  <2> HIDE DEF Body
  <2> QED BY <1>4
<1> HIDE DEF Chosen
<1>6. \A s \in SUBSET (1 .. n) :
         Chosen[s] = IF s = {} THEN 0 ELSE Chosen[s \ {Max(s)}] * Base + t[Max(s)]
  <2> DEFINE rhs(s) == IF s = {} THEN 0 ELSE Chosen[s \ {Max(s)}] * Base + t[Max(s)]
  <2>1. Chosen = [s \in SUBSET (1 .. n) |-> rhs(s)] BY <1>5
  <2> HIDE DEF rhs
  <2>2. \A s \in SUBSET (1 .. n) : Chosen[s] = rhs(s) BY <2>1
  <2> QED BY <2>2 DEF rhs
<1> DEFINE h == [i \in 0 .. n |-> Chosen[1 .. i]]
<1>7. h[0] = 0
  <2>1. 1 .. 0 = {} /\ 1 .. 0 \in SUBSET (1 .. n) /\ 0 \in 0 .. n BY <1>0
  <2> QED BY <1>6, <2>1
<1>8. ASSUME NEW i \in 1 .. n PROVE h[i] = h[i - 1] * Base + t[i]
  <2>1. 1 .. i \in SUBSET (1 .. n) /\ i \in 1 .. i /\ (1 .. i) \ {i} = 1 .. i - 1 BY <1>0
  <2>2. Max(1 .. i) = i
    <3>1. \A j \in 1 .. i : j <= i OBVIOUS
    <3> QED BY <1>0, <2>1, <3>1, MaxOfInterval
  <2>3. i \in 0 .. n /\ i - 1 \in 0 .. n BY <1>0
  <2>4. h[i] = Chosen[1 .. i] /\ h[i - 1] = Chosen[1 .. i - 1] BY <2>3
  <2>5. Chosen[1 .. i] = Chosen[1 .. i - 1] * Base + t[i]
    <3> HIDE DEF h
    <3> QED BY <1>6, <2>1, <2>2
  <2> HIDE DEF h
  <2> QED BY <2>4, <2>5
<1>9. \A i \in 0 .. n : h[i] \in Nat
  <2> DEFINE T == {i \in 0 .. n : h[i] \in Nat}
  <2> HIDE DEF h
  <2>1. 0 \in T BY <1>0, <1>7
  <2>2. ASSUME NEW m \in 0 .. n, m \in T, m < n PROVE m + 1 \in T
    <3>1. m + 1 \in 1 .. n /\ m + 1 \in 0 .. n /\ (m + 1) - 1 = m BY <1>0, <2>2
    <3>2. h[m + 1] = h[m] * Base + t[m + 1] BY <1>8, <3>1
    <3>3. PICK d \in Nat : d = t[m + 1] BY <1>0, <3>1
    <3>4. PICK p \in Nat : p = h[m] * Base BY <2>2, BaseFacts, Products
    <3>5. h[m + 1] \in Nat BY <3>2, <3>3, <3>4
    <3> QED BY <3>1, <3>5
  <2>3. 0 .. n \subseteq T
    <3> HIDE DEF T
    <3> QED BY <1>0, <2>1, <2>2, InductionUpTo
  <2> QED BY <2>3
<1>10. h[n] = Chosen[1 .. n] BY <1>0
<1>11. h \in [0 .. n -> Nat]
  <2> HIDE DEF Chosen
  <2> QED BY <1>9
<1> HIDE DEF h
<1>12. h[0] = 0 /\ \A i \in 1 .. n : h[i] = h[i - 1] * Base + t[i]
  BY <1>7, <1>8
<1>13. Reads(h, t) BY <1>11, <1>12 DEF Reads
<1> QED BY <1>1, <1>10, <1>13

\* Digits are read from the left.
LEMMA DigitsProperties ==
    /\ DigitsValue(<< >>) = 0
    /\ \A t \in Seq(Digits) : DigitsValue(t) \in Nat
    /\ \A t \in Seq(Digits), d \in Digits :
          DigitsValue(Append(t, d)) = DigitsValue(t) * Base + d
<1>1. DigitsValue(<< >>) = 0
  <2>1. ASSUME NEW t \in Seq(Digits), Len(t) = 0 PROVE DigitsValue(t) = 0
    <3>1. PICK h : Reads(h, t) /\ DigitsValue(t) = h[Len(t)] BY DigitsUnfold
    <3> QED BY <2>1, <3>1 DEF Reads
  <2>2. << >> \in Seq(Digits) /\ Len(<< >>) = 0 OBVIOUS
  <2> QED BY <2>1, <2>2
<1>2. ASSUME NEW t \in Seq(Digits) PROVE DigitsValue(t) \in Nat
  <2>1. PICK h : Reads(h, t) /\ DigitsValue(t) = h[Len(t)] BY DigitsUnfold
  <2>2. Len(t) \in 0 .. Len(t) BY LenProperties
  <2> QED BY <2>1, <2>2 DEF Reads
<1>3. ASSUME NEW t \in Seq(Digits), NEW d \in Digits
      PROVE  DigitsValue(Append(t, d)) = DigitsValue(t) * Base + d
  <2> DEFINE n == Len(t)
             r == Append(t, d)
  <2>0. /\ n \in Nat /\ r \in Seq(Digits) /\ Len(r) = n + 1
        /\ r[n + 1] = d /\ \A i \in 1 .. n : r[i] = t[i]
    BY LenProperties, AppendProperties
  <2>a. PICK g : Reads(g, t) /\ DigitsValue(t) = g[Len(t)] BY DigitsUnfold
  <2>b. PICK h : Reads(h, r) /\ DigitsValue(r) = h[Len(r)]
    <3> HIDE DEF r
    <3> QED BY <2>0, DigitsUnfold
  <2>1. /\ g[0] = 0 /\ \A i \in 1 .. n : g[i] = g[i - 1] * Base + t[i]
        /\ DigitsValue(t) = g[n]
    BY <2>a DEF Reads
  <2> HIDE DEF n, r
  <2>2. /\ h[0] = 0 /\ \A i \in 1 .. n + 1 : h[i] = h[i - 1] * Base + r[i]
        /\ DigitsValue(r) = h[n + 1]
    BY <2>b, <2>0 DEF Reads
  <2> DEFINE T == {i \in 0 .. n : h[i] = g[i]}
  <2>3. 0 \in T BY <2>0, <2>1, <2>2
  <2>4. ASSUME NEW m \in 0 .. n, m \in T, m < n PROVE m + 1 \in T
    <3>1. m + 1 \in 1 .. n /\ m + 1 \in 1 .. n + 1 /\ (m + 1) - 1 = m BY <2>0, <2>4
    <3>2. g[m + 1] = g[m] * Base + t[m + 1] BY <2>1, <3>1
    <3>3. h[m + 1] = h[m] * Base + r[m + 1] BY <2>2, <3>1
    <3>4. h[m] = g[m] /\ r[m + 1] = t[m + 1] BY <2>0, <2>4, <3>1
    <3>5. m + 1 \in 0 .. n BY <2>0, <2>4
    <3> QED BY <3>2, <3>3, <3>4, <3>5
  <2>5. 0 .. n \subseteq T
    <3> HIDE DEF T
    <3> QED BY <2>0, <2>3, <2>4, InductionUpTo
  <2>6. h[n] = g[n]
    <3>1. n \in 0 .. n BY <2>0
    <3> QED BY <2>5, <3>1
  <2>7. h[n + 1] = h[n] * Base + r[n + 1]
    <3>1. n + 1 \in 1 .. n + 1 /\ (n + 1) - 1 = n BY <2>0
    <3> QED BY <2>2, <3>1
  <2> QED BY <2>0, <2>1, <2>2, <2>6, <2>7 DEF r
<1> QED BY <1>1, <1>2, <1>3

LEMMA DigitsAppended ==
    ASSUME NEW t \in Seq(Digits), NEW d \in Digits
    PROVE  DigitsValue(Append(t, d)) = DigitsValue(t) * Base + d
BY DigitsProperties

LEMMA DigitsAreNatural ==
    ASSUME NEW t \in Seq(Digits)
    PROVE  DigitsValue(t) \in Nat
BY DigitsProperties

\* What a row is without its last item.
LEMMA LastOfRow ==
    ASSUME NEW X, NEW m \in Nat, NEW t \in Seq(X), Len(t) = m + 1
    PROVE  /\ SubSeq(t, 1, m) \in Seq(X) /\ Len(SubSeq(t, 1, m)) = m /\ t[m + 1] \in X
           /\ t = Append(SubSeq(t, 1, m), t[m + 1])
<1> DEFINE s == SubSeq(t, 1, m)
<1>1. \A i \in 1 .. m + 1 : t[i] \in X BY ElementOfSeq
<1>2. s \in Seq(X) /\ Len(s) = m
  <2>1. \A i \in 1 .. m : t[i] \in X BY <1>1
  <2> QED BY <2>1, SubSeqProperties
<1>3. t[m + 1] \in X BY <1>1
<1>4. SubSeq(t, 1, m + 1) = SubSeq(t, 1, (m + 1) - 1) \o <<t[m + 1]>>
  <2>1. 1 \in 1 .. Len(t) /\ m + 1 \in 1 .. Len(t) OBVIOUS
  <2> QED BY <2>1, SubSeqRecursiveSecond
<1>5. SubSeq(t, 1, m + 1) = t BY SubSeqFull
<1>6. (m + 1) - 1 = m OBVIOUS
<1>7. Append(s, t[m + 1]) = s \o <<t[m + 1]>> BY <1>2, <1>3, AppendIsConcat
<1> QED BY <1>2, <1>3, <1>4, <1>5, <1>6, <1>7

\* n digits are less than the n-th power.
LEMMA DigitsBelowPower ==
    ASSUME NEW n \in Nat
    PROVE  \A t \in Seq(Digits) : Len(t) = n => DigitsValue(t) < Power[n]
<1> DEFINE T == {m \in 0 .. n : \A t \in Seq(Digits) : Len(t) = m => DigitsValue(t) < Power[m]}
<1>1. 0 \in T
  <2>1. ASSUME NEW t \in Seq(Digits), Len(t) = 0 PROVE DigitsValue(t) < Power[0]
    <3>1. t = << >> BY <2>1, EmptySeq
    <3> QED BY <3>1, DigitsProperties, PowerUnfolds
  <2> QED BY <2>1
<1>2. ASSUME NEW m \in 0 .. n, m \in T, m < n PROVE m + 1 \in T
  <2>1. ASSUME NEW t \in Seq(Digits), Len(t) = m + 1 PROVE DigitsValue(t) < Power[m + 1]
    <3>0. m \in Nat OBVIOUS
    <3>1. PICK s \in Seq(Digits), d \in Digits : t = Append(s, d) /\ Len(s) = m
      <4>1. PICK s : s = SubSeq(t, 1, m) OBVIOUS
      <4>2. PICK d : d = t[m + 1] OBVIOUS
      <4>3. /\ SubSeq(t, 1, m) \in Seq(Digits) /\ Len(SubSeq(t, 1, m)) = m
            /\ t[m + 1] \in Digits /\ t = Append(SubSeq(t, 1, m), t[m + 1])
        BY <2>1, <3>0, LastOfRow
      <4>4. s \in Seq(Digits) /\ Len(s) = m /\ d \in Digits /\ t = Append(s, d)
        BY <4>1, <4>2, <4>3
      <4> QED BY <4>4
    <3>2. DigitsValue(t) = DigitsValue(s) * Base + d BY <3>1, DigitsAppended
    <3>3. PICK v \in Nat : v = DigitsValue(s) BY DigitsAreNatural
    <3>4. PICK p \in Nat : p = Power[m] BY PowerUnfolds
    <3>5. v + 1 <= p BY <1>2, <3>1, <3>3, <3>4
    <3>6. (v + 1) * Base <= p * Base BY <3>5, BaseFacts, ProductsGrow
    <3>7. PICK x \in Nat : x = v * Base BY BaseFacts, Products
    <3>8. PICK y \in Nat : y = p * Base BY BaseFacts, Products
    <3>9. PICK e \in Nat : e = d /\ e < Base BY DigitType, BaseFacts
    <3>10. (v + 1) * Base = x + Base
      <4>1. (v + 1) * Base = v * Base + 1 * Base BY BaseFacts, Products
      <4> QED BY <3>7, <4>1, BaseFacts, Products
    <3>11. Power[m + 1] = y BY <3>0, <3>4, <3>8, BaseFacts, Products, PowerUnfolds
    <3>12. x + e < y
      <4>1. PICK b \in Nat : b = Base BY BaseFacts
      <4> QED BY <3>6, <3>8, <3>9, <3>10, <4>1
    <3> QED BY <3>2, <3>3, <3>7, <3>9, <3>11, <3>12
  <2>2. m + 1 \in 0 .. n BY <1>2
  <2> QED BY <2>1, <2>2
<1>3. 0 .. n \subseteq T
  <2> HIDE DEF T
  <2> QED BY <1>1, <1>2, InductionUpTo
<1>4. n \in 0 .. n OBVIOUS
<1> QED BY <1>3, <1>4

\* Digits behind others move those to higher places.
LEMMA DigitsConcatenated ==
    ASSUME NEW a \in Seq(Digits), NEW n \in Nat
    PROVE  \A b \in Seq(Digits) : Len(b) = n =>
              DigitsValue(a \o b) = DigitsValue(a) * Power[n] + DigitsValue(b)
<1> DEFINE V == DigitsValue(a)
           T == {m \in 0 .. n : \A b \in Seq(Digits) : Len(b) = m =>
                    DigitsValue(a \o b) = V * Power[m] + DigitsValue(b)}
<1>0. V \in Nat BY DigitsAreNatural
<1> HIDE DEF V
<1>1. 0 \in T
  <2>1. ASSUME NEW b \in Seq(Digits), Len(b) = 0
        PROVE  DigitsValue(a \o b) = V * Power[0] + DigitsValue(b)
    <3>1. b = << >> BY <2>1, EmptySeq
    <3>2. a \o b = a BY <3>1, ConcatEmptySeq
    <3>3. V * Power[0] = V BY <1>0, PowerUnfolds, Products
    <3>4. DigitsValue(b) = 0 BY <3>1, DigitsProperties
    <3> QED BY <1>0, <3>2, <3>3, <3>4 DEF V
  <2> QED BY <2>1
<1>2. ASSUME NEW m \in 0 .. n, m \in T, m < n PROVE m + 1 \in T
  <2>1. ASSUME NEW b \in Seq(Digits), Len(b) = m + 1
        PROVE  DigitsValue(a \o b) = V * Power[m + 1] + DigitsValue(b)
    <3>0. m \in Nat OBVIOUS
    <3>1. PICK s \in Seq(Digits), d \in Digits : b = Append(s, d) /\ Len(s) = m
      <4>1. PICK s : s = SubSeq(b, 1, m) OBVIOUS
      <4>2. PICK d : d = b[m + 1] OBVIOUS
      <4>3. /\ SubSeq(b, 1, m) \in Seq(Digits) /\ Len(SubSeq(b, 1, m)) = m
            /\ b[m + 1] \in Digits /\ b = Append(SubSeq(b, 1, m), b[m + 1])
        BY <2>1, <3>0, LastOfRow
      <4>4. s \in Seq(Digits) /\ Len(s) = m /\ d \in Digits /\ b = Append(s, d)
        BY <4>1, <4>2, <4>3
      <4> QED BY <4>4
    <3>2. a \o b = Append(a \o s, d) /\ a \o s \in Seq(Digits)
      <4>1. b = s \o <<d>> BY <3>1, AppendIsConcat
      <4>2. a \o s \in Seq(Digits) BY ConcatProperties
      <4>3. Append(a \o s, d) = (a \o s) \o <<d>> BY <4>2, AppendIsConcat
      <4>4. <<d>> \in Seq(Digits) OBVIOUS
      <4> QED BY <4>1, <4>2, <4>3, <4>4, ConcatAssociative
    <3>3. DigitsValue(a \o b) = DigitsValue(a \o s) * Base + d BY <3>2, DigitsAppended
    <3>4. DigitsValue(b) = DigitsValue(s) * Base + d BY <3>1, DigitsAppended
    <3>5. DigitsValue(a \o s) = V * Power[m] + DigitsValue(s) BY <1>2, <3>1
    <3>6. PICK v \in Nat : v = DigitsValue(s) BY DigitsAreNatural
    <3>7. PICK p \in Nat : p = Power[m] BY PowerUnfolds
    <3>8. PICK x \in Nat : x = V * p BY <1>0, Products
    <3>9. PICK e \in Nat : e = d BY DigitType
    <3>10. (x + v) * Base = x * Base + v * Base BY BaseFacts, Products
    <3>11. V * Power[m + 1] = x * Base
      <4>1. PICK B \in Nat : B = Base BY BaseFacts
      <4>2. Power[m + 1] = p * B BY <3>0, <3>7, <4>1, PowerUnfolds, Products
      <4>3. V * (p * B) = (V * p) * B BY <1>0, Products
      <4> QED BY <3>8, <4>1, <4>2, <4>3
    <3>12. PICK y \in Nat : y = x * Base BY BaseFacts, Products
    <3>13. PICK z \in Nat : z = v * Base BY BaseFacts, Products
    <3>14. DigitsValue(a \o b) = y + z + e
      BY <3>3, <3>5, <3>6, <3>7, <3>8, <3>9, <3>10, <3>12, <3>13
    <3>15. DigitsValue(b) = z + e BY <3>4, <3>6, <3>9, <3>13
    <3> QED BY <3>11, <3>12, <3>14, <3>15
  <2>2. m + 1 \in 0 .. n BY <1>2
  <2> QED BY <2>1, <2>2
<1>3. 0 .. n \subseteq T
  <2> HIDE DEF T
  <2> QED BY <1>1, <1>2, InductionUpTo
<1>4. n \in 0 .. n OBVIOUS
<1> QED BY <1>3, <1>4 DEF V

-----------------------------------------------------------------------------
(* The weight of a number's digits.                                        *)

\* h has the weights of the first digits.
Weighs(h, digits, high) ==
    /\ h \in [0 .. Len(digits) -> Nat] /\ h[0] = 0
    /\ \A i \in 1 .. Len(digits) : h[i] = h[i - 1] + digits[i] * Power[high - i]

\* The iteration a weight is.
Indices(t) == [i \in DOMAIN t |-> i]

WeightBody(F, int, frac) ==
    [s \in SUBSET DOMAIN Indices(int \o frac) |->
        IF s = {} THEN 0
        ELSE F[s \ {Max(s)}]
               + (int \o frac)[Indices(int \o frac)[Max(s)]]
                   * Power[Places + Len(int) - Indices(int \o frac)[Max(s)]]]

LEMMA WeightIsFold ==
    ASSUME NEW int, NEW frac
    PROVE  Weight(int, frac)
             = (CHOOSE F : F = WeightBody(F, int, frac))[DOMAIN Indices(int \o frac)]
<1>1. Weight(int, frac)
        = FoldLeft(LAMBDA sum, i : sum + (int \o frac)[i] * Power[Places + Len(int) - i], 0,
                   Indices(int \o frac))
  BY DEF Weight, FoldLeftDomain, Indices
<1>2. FoldLeft(LAMBDA sum, i : sum + (int \o frac)[i] * Power[Places + Len(int) - i], 0,
               Indices(int \o frac))
        = (CHOOSE F : F = WeightBody(F, int, frac))[DOMAIN Indices(int \o frac)]
  BY DEF FoldLeft, MapThenFoldSet, WeightBody
<1> QED BY <1>1, <1>2

LEMMA WeightUnfolds ==
    ASSUME NEW int \in Seq(Digits), NEW frac \in Seq(Digits), Len(frac) <= Places
    PROVE  \E h : /\ Weighs(h, int \o frac, Places + Len(int))
                  /\ Weight(int, frac) = h[Len(int \o frac)]
<1> DEFINE t == int \o frac
           n == Len(t)
           high == Places + Len(int)
           Step == [i \in 1 .. n |-> [x \in Nat |-> x + t[i] * Power[high - i]]]
           Body(F) == [s \in SUBSET (1 .. n) |->
                         IF s = {} THEN 0
                         ELSE F[s \ {Max(s)}] + t[Max(s)] * Power[high - Max(s)]]
           Chosen == CHOOSE F : F = WeightBody(F, int, frac)
<1>0. /\ t \in Seq(Digits) /\ n \in Nat /\ DOMAIN t = 1 .. n /\ \A i \in 1 .. n : t[i] \in Nat
      /\ n = Len(int) + Len(frac) /\ Len(int) \in Nat /\ Len(frac) \in Nat
  <2>1. t \in Seq(Digits) /\ n = Len(int) + Len(frac) BY ConcatProperties
  <2>2. Len(int) \in Nat /\ Len(frac) \in Nat BY LenProperties
  <2> HIDE DEF t
  <2>3. DOMAIN t = 1 .. n BY <2>1, LenProperties
  <2>4. \A i \in 1 .. n : t[i] \in Nat BY <2>1, ElementOfSeq, DigitType
  <2> QED BY <2>1, <2>2, <2>3, <2>4
<1>a. high \in Nat /\ \A i \in 1 .. n : high - i \in Nat /\ Power[high - i] \in Nat
  <2>1. high \in Nat /\ \A i \in 1 .. n : high - i \in Nat BY <1>0, BaseFacts
  <2> HIDE DEF high, n
  <2> QED BY <2>1, PowerUnfolds
<1>b. DOMAIN Indices(t) = 1 .. n /\ \A i \in 1 .. n : Indices(t)[i] = i BY <1>0 DEF Indices
<1>1. Weight(int, frac) = Chosen[1 .. n]
  <2>1. Weight(int, frac) = Chosen[DOMAIN Indices(t)] BY WeightIsFold
  <2> HIDE DEF Chosen, n, t, high
  <2> QED BY <2>1, <1>b
<1>c. \A F : WeightBody(F, int, frac) = Body(F)
  <2>1. ASSUME NEW s \in SUBSET (1 .. n), s # {} PROVE Max(s) \in 1 .. n
    BY <1>0, <2>1, MaxOfInterval
  <2>2. ASSUME NEW s \in SUBSET (1 .. n), s # {} PROVE Indices(t)[Max(s)] = Max(s)
    <3> HIDE DEF t, n
    <3> QED BY <1>b, <2>1, <2>2
  <2> SUFFICES ASSUME NEW F PROVE WeightBody(F, int, frac) = Body(F)
    OBVIOUS
  <2> DEFINE lhs(s) == IF s = {} THEN 0
                       ELSE F[s \ {Max(s)}]
                              + (int \o frac)[Indices(int \o frac)[Max(s)]]
                                  * Power[Places + Len(int) - Indices(int \o frac)[Max(s)]]
             rhs(s) == IF s = {} THEN 0 ELSE F[s \ {Max(s)}] + t[Max(s)] * Power[high - Max(s)]
  <2>3. WeightBody(F, int, frac) = [s \in SUBSET DOMAIN Indices(int \o frac) |-> lhs(s)]
    BY DEF WeightBody
  <2>4. ASSUME NEW s \in SUBSET (1 .. n) PROVE lhs(s) = rhs(s)
    <3>1. s # {} => Indices(t)[Max(s)] = Max(s) BY <2>2
    <3>2. t = int \o frac /\ high = Places + Len(int) OBVIOUS
    <3> HIDE DEF t, n, high
    <3>3. s # {} => Indices(int \o frac)[Max(s)] = Max(s) BY <3>1, <3>2
    <3>4. CASE s = {} BY <3>4
    <3>5. CASE s # {}
      <4>1. lhs(s) = F[s \ {Max(s)}] + (int \o frac)[Max(s)] * Power[Places + Len(int) - Max(s)]
        BY <3>3, <3>5
      <4>2. rhs(s) = F[s \ {Max(s)}] + t[Max(s)] * Power[high - Max(s)] BY <3>5
      <4>3. PICK k \in 1 .. n : k = Max(s) BY <2>1, <3>5
      <4>4. Places + Len(int) - k = high - k BY <1>0, <3>2, BaseFacts
      <4>5. (int \o frac)[k] = t[k] BY <3>2
      <4> HIDE DEF lhs, rhs
      <4> QED BY <4>1, <4>2, <4>3, <4>4, <4>5
    <3> QED BY <3>4, <3>5
  <2>5. Body(F) = [s \in SUBSET (1 .. n) |-> rhs(s)] OBVIOUS
  <2> HIDE DEF lhs, rhs, Body
  <2> QED BY <1>b, <2>3, <2>4, <2>5
<1> HIDE DEF t, n, high
<1>2. Step \in [1 .. n -> [Nat -> Nat]]
  <2>1. ASSUME NEW i \in 1 .. n, NEW x \in Nat PROVE x + t[i] * Power[high - i] \in Nat
    <3>1. PICK p \in Nat : p = t[i] * Power[high - i] BY <1>0, <1>a, Products
    <3> QED BY <3>1
  <2> QED BY <2>1
<1>3. PICK F \in [SUBSET (1 .. n) -> Nat] : IsIteration(F, n, 0, Step)
  <2>1. 0 \in Nat OBVIOUS
  <2> HIDE DEF Step
  <2> QED BY <1>0, <1>2, <2>1, IterationExists
<1>4. F = Body(F)
  <2>1. ASSUME NEW s \in SUBSET (1 .. n), s # {}
        PROVE  Step[Max(s)][F[s \ {Max(s)}]]
                 = F[s \ {Max(s)}] + t[Max(s)] * Power[high - Max(s)]
    <3>1. Max(s) \in 1 .. n BY <1>0, <2>1, MaxOfInterval
    <3>2. F[s \ {Max(s)}] \in Nat BY <1>3
    <3> QED BY <3>1, <3>2
  <2> QED BY <1>3, <1>b, <2>1 DEF IsIteration
<1>5. Chosen = Body(Chosen)
  <2> HIDE DEF Body
  <2> QED BY <1>4, <1>c
<1> HIDE DEF Chosen
<1>6. \A s \in SUBSET (1 .. n) :
         Chosen[s] = IF s = {} THEN 0
                     ELSE Chosen[s \ {Max(s)}] + t[Max(s)] * Power[high - Max(s)]
  <2> DEFINE rhs(s) == IF s = {} THEN 0
                       ELSE Chosen[s \ {Max(s)}] + t[Max(s)] * Power[high - Max(s)]
  <2>1. Chosen = [s \in SUBSET (1 .. n) |-> rhs(s)] BY <1>5, <1>b
  <2> HIDE DEF rhs
  <2>2. \A s \in SUBSET (1 .. n) : Chosen[s] = rhs(s) BY <2>1
  <2> QED BY <2>2 DEF rhs
<1> DEFINE h == [i \in 0 .. n |-> Chosen[1 .. i]]
<1>7. h[0] = 0
  <2>1. 1 .. 0 = {} /\ 1 .. 0 \in SUBSET (1 .. n) /\ 0 \in 0 .. n BY <1>0
  <2> QED BY <1>6, <2>1
<1>8. ASSUME NEW i \in 1 .. n PROVE h[i] = h[i - 1] + t[i] * Power[high - i]
  <2>1. 1 .. i \in SUBSET (1 .. n) /\ i \in 1 .. i /\ (1 .. i) \ {i} = 1 .. i - 1 BY <1>0
  <2>2. Max(1 .. i) = i
    <3>1. \A j \in 1 .. i : j <= i OBVIOUS
    <3> QED BY <1>0, <2>1, <3>1, MaxOfInterval
  <2>3. i \in 0 .. n /\ i - 1 \in 0 .. n BY <1>0
  <2>4. h[i] = Chosen[1 .. i] /\ h[i - 1] = Chosen[1 .. i - 1] BY <2>3
  <2>5. Chosen[1 .. i] = Chosen[1 .. i - 1] + t[i] * Power[high - i]
    <3> HIDE DEF h
    <3> QED BY <1>6, <2>1, <2>2
  <2> HIDE DEF h
  <2> QED BY <2>4, <2>5
<1>9. \A i \in 0 .. n : h[i] \in Nat
  <2> DEFINE T == {i \in 0 .. n : h[i] \in Nat}
  <2> HIDE DEF h
  <2>1. 0 \in T BY <1>0, <1>7
  <2>2. ASSUME NEW m \in 0 .. n, m \in T, m < n PROVE m + 1 \in T
    <3>1. m + 1 \in 1 .. n /\ m + 1 \in 0 .. n /\ (m + 1) - 1 = m BY <1>0, <2>2
    <3>2. h[m + 1] = h[m] + t[m + 1] * Power[high - (m + 1)] BY <1>8, <3>1
    <3>3. PICK p \in Nat : p = t[m + 1] * Power[high - (m + 1)] BY <1>0, <1>a, <3>1, Products
    <3>4. h[m + 1] \in Nat BY <2>2, <3>2, <3>3
    <3> QED BY <3>1, <3>4
  <2>3. 0 .. n \subseteq T
    <3> HIDE DEF T
    <3> QED BY <1>0, <2>1, <2>2, InductionUpTo
  <2> QED BY <2>3
<1>10. h[n] = Chosen[1 .. n] BY <1>0
<1>11. h \in [0 .. n -> Nat]
  <2> HIDE DEF Chosen
  <2> QED BY <1>9
<1> HIDE DEF h
<1>12. h[0] = 0 /\ \A i \in 1 .. n : h[i] = h[i - 1] + t[i] * Power[high - i]
  BY <1>7, <1>8
<1>13. Weighs(h, t, high) BY <1>11, <1>12 DEF Weighs, n
<1> QED BY <1>1, <1>10, <1>13 DEF t, n, high

\* A weight is the number of whole units and that of the smallest parts.
LEMMA WeightOfNumber ==
    ASSUME NEW int \in Seq(Digits), NEW frac \in Seq(Digits), Len(frac) <= Places
    PROVE  Weight(int, frac) = DigitsValue(int) * SCALE
                                  + DigitsValue(frac) * Power[Places - Len(frac)]
<1> DEFINE t == int \o frac
           n == Len(t)
           high == Places + Len(int)
           rest == Places - Len(frac)
<1>1. /\ t \in Seq(Digits) /\ n = Len(int) + Len(frac)
      /\ Len(int) \in Nat /\ Len(frac) \in Nat
  BY ConcatProperties, LenProperties
<1>2. PICK h : Weighs(h, t, high) /\ Weight(int, frac) = h[n]
  BY WeightUnfolds
<1>3. PICK g : Reads(g, t) /\ DigitsValue(t) = g[n]
  <2> HIDE DEF t
  <2> QED BY <1>1, DigitsUnfold
<1>4. high \in Nat /\ n \in Nat /\ rest \in Nat /\ high - n = rest /\ \A i \in 0 .. n : high - i \in Nat
  BY <1>1, BaseFacts
<1>5. \A i \in 1 .. n : t[i] \in Nat
  <2> HIDE DEF t
  <2> QED BY <1>1, ElementOfSeq, DigitType
<1>6. /\ h[0] = 0 /\ \A i \in 1 .. n : h[i] = h[i - 1] + t[i] * Power[high - i]
      /\ g[0] = 0 /\ \A i \in 1 .. n : g[i] = g[i - 1] * Base + t[i]
      /\ \A i \in 0 .. n : g[i] \in Nat
  <2> HIDE DEF t, high
  <2> QED BY <1>2, <1>3 DEF Weighs, Reads
<1> HIDE DEF t, n, high, rest
<1> DEFINE T == {i \in 0 .. n : h[i] = g[i] * Power[high - i]}
<1>7. 0 \in T
  <2>1. high - 0 = high /\ Power[high] \in Int
    <3>1. high - 0 = high BY <1>4
    <3>2. Power[high] \in Nat BY <1>4, PowerUnfolds
    <3> QED BY <3>1, <3>2
  <2>2. 0 * Power[high] = 0 BY <2>1, Products
  <2> QED BY <1>4, <1>6, <2>1, <2>2
<1>8. ASSUME NEW m \in 0 .. n, m \in T, m < n PROVE m + 1 \in T
  <2>1. /\ m + 1 \in 1 .. n /\ m + 1 \in 0 .. n /\ (m + 1) - 1 = m
        /\ high - (m + 1) \in Nat /\ high - m = (high - (m + 1)) + 1
    BY <1>4, <1>8
  <2>2. PICK k \in Nat : k = high - (m + 1) BY <2>1
  <2>3. PICK p \in Nat : p = Power[k] BY PowerUnfolds
  <2>4. PICK B \in Nat : B = Base BY BaseFacts
  <2>5. PICK d \in Nat : d = t[m + 1] BY <1>5, <2>1
  <2>6. PICK v \in Nat : v = g[m] BY <1>6
  <2>7. Power[high - m] = B * p BY <2>1, <2>2, <2>3, <2>4, PowerUnfolds
  <2>8. h[m] = v * (B * p) BY <1>8, <2>6, <2>7
  <2>9. h[m + 1] = h[m] + d * p BY <1>6, <2>1, <2>2, <2>3, <2>5
  <2>10. g[m + 1] = v * B + d BY <1>6, <2>1, <2>4, <2>5, <2>6
  <2>11. (v * B + d) * p = v * (B * p) + d * p
    <3>1. PICK w \in Nat : w = v * B BY Products
    <3>2. (w + d) * p = w * p + d * p BY Products
    <3>3. w * p = v * (B * p) BY <3>1, Products
    <3> QED BY <3>1, <3>2, <3>3
  <2>12. h[m + 1] = g[m + 1] * Power[high - (m + 1)] BY <2>2, <2>3, <2>8, <2>9, <2>10, <2>11
  <2> QED BY <2>1, <2>12
<1>9. 0 .. n \subseteq T
  <2> HIDE DEF T
  <2> QED BY <1>4, <1>7, <1>8, InductionUpTo
<1>10. h[n] = g[n] * Power[rest]
  <2>1. n \in 0 .. n BY <1>4
  <2>2. h[n] = g[n] * Power[high - n] BY <1>9, <2>1
  <2> QED BY <1>4, <2>2
<1>11. Weight(int, frac) = DigitsValue(t) * Power[rest] BY <1>2, <1>3, <1>10
<1>12. DigitsValue(t) = DigitsValue(int) * Power[Len(frac)] + DigitsValue(frac)
  BY <1>1, DigitsConcatenated DEF t
<1>13. PICK v \in Nat : v = DigitsValue(int) BY DigitsAreNatural
<1>14. PICK w \in Nat : w = DigitsValue(frac) BY DigitsAreNatural
<1>15. PICK p \in Nat : p = Power[Len(frac)] BY <1>1, PowerUnfolds
<1>16. PICK q \in Nat : q = Power[rest] BY <1>4, PowerUnfolds
<1>17. (v * p + w) * q = v * (p * q) + w * q
  <2>1. PICK x \in Nat : x = v * p BY Products
  <2>2. (x + w) * q = x * q + w * q BY Products
  <2>3. x * q = v * (p * q) BY <2>1, Products
  <2> QED BY <2>1, <2>2, <2>3
<1>18. SCALE = p * q
  <2>1. Len(frac) + rest = Places BY <1>1, BaseFacts DEF rest
  <2>2. Power[Len(frac) + rest] = Power[Len(frac)] * Power[rest] BY <1>1, <1>4, PowerOfSum
  <2> QED BY <2>1, <2>2, <1>15, <1>16 DEF SCALE
<1> QED BY <1>11, <1>12, <1>13, <1>14, <1>15, <1>16, <1>17, <1>18 DEF rest

-----------------------------------------------------------------------------
(* Numbers are read exactly.                                               *)

LEMMA CharType ==
    /\ Digits \subseteq Char /\ Minus \in Char /\ Dot \in Char
    /\ Minus \notin Digits /\ Dot \notin Digits /\ Minus # Dot
    /\ Char \subseteq Int
BY BaseFacts DEF Digits, Minus, Dot, Other, Char

LEMMA RowsOfDigits ==
    ASSUME NEW t \in Seq(Char)
    PROVE  IsDigits(t) <=> t \in Seq(Digits)
<1>1. DOMAIN t = 1 .. Len(t) /\ Len(t) \in Nat /\ t \in [1 .. Len(t) -> Char]
  BY LenProperties
<1>2. ASSUME IsDigits(t) PROVE t \in Seq(Digits)
  <2>1. t \in [1 .. Len(t) -> Digits] BY <1>1, <1>2 DEF IsDigits
  <2> QED BY <1>1, <2>1, SeqDef
<1>3. ASSUME t \in Seq(Digits) PROVE IsDigits(t)
  BY <1>1, <1>3, ElementOfSeq DEF IsDigits
<1> QED BY <1>2, <1>3

LEMMA DigitsAreChars ==
    ASSUME NEW t \in Seq(Digits)
    PROVE  t \in Seq(Char) /\ IsDigits(t)
<1>1. t \in Seq(Char) BY CharType, SeqMonotonic
<1> QED BY <1>1, RowsOfDigits

Signs  == {<< >>, <<Minus>>}
Points == {<< >>, <<Dot>>}

LEMMA SignsAndPoints ==
    /\ \A sign \in Signs : sign \in Seq(Char) /\ Len(sign) \in 0 .. 1
    /\ \A point \in Points : point \in Seq(Char) /\ Len(point) \in 0 .. 1
BY CharType DEF Signs, Points

\* The number a sign and digits stand for.
Signed(sign, n) == IF sign = << >> THEN n ELSE -n

LEMMA WordOrThrown ==
    /\ Thrown \notin Word
    /\ \A n : ExactOrThrow(n) # Thrown => ExactOrThrow(n) = n /\ n \in Word
    /\ \A n : n \in Word => ExactOrThrow(n) = n
    /\ \A n : n \notin Word => ExactOrThrow(n) = Thrown
BY WordsAreIntegers DEF Thrown, ExactOrThrow

\* A sign and some digits are read as a word, if they are one.
LEMMA DigitsAreRead ==
    ASSUME NEW sign \in Signs, NEW int \in Seq(Digits), int # << >>
    PROVE  fromChars(sign \o int) = ExactOrThrow(Signed(sign, DigitsValue(int)))
<1>1. Len(int) \in Nat /\ Len(int) >= 1 /\ int[1] \in Digits /\ IsDigits(int) /\ int \in Seq(Char)
  <2>1. Len(int) \in Nat \ {0} BY EmptySeq
  <2> QED BY <2>1, ElementOfSeq, DigitsAreChars
<1>2. CASE sign = << >>
  <2>1. sign \o int = int BY <1>2, ConcatEmptySeq
  <2>2. int[1] # Minus BY <1>1, CharType
  <2>3. fromChars(int) = IF DigitsValue(int) \in Word THEN DigitsValue(int) ELSE Thrown
    BY <1>1, <2>2 DEF fromChars
  <2> QED BY <1>2, <2>1, <2>3 DEF Signed, ExactOrThrow
<1>3. CASE sign = <<Minus>>
  <2> DEFINE t == <<Minus>> \o int
  <2>1. t \in Seq(Char) /\ Len(t) = Len(int) + 1 /\ t[1] = Minus /\ t # << >>
    <3>1. <<Minus>> \in Seq(Char) /\ Len(<<Minus>>) = 1 BY CharType
    <3>2. t \in Seq(Char) /\ Len(t) = 1 + Len(int) BY <1>1, <3>1, ConcatProperties
    <3>3. t[1] = <<Minus>>[1] BY <1>1, <3>1, ConcatProperties
    <3> HIDE DEF t
    <3> QED BY <1>1, <3>2, <3>3, EmptySeq
  <2>2. \A i \in 1 .. Len(int) : t[i + 1] = int[i]
    <3> SUFFICES ASSUME NEW i \in 1 .. Len(int) PROVE t[i + 1] = int[i]
      OBVIOUS
    <3>1. <<Minus>> \in Seq(Char) /\ Len(<<Minus>>) = 1 BY CharType
    <3>2. i + 1 \in 1 .. 1 + Len(int) /\ ~(i + 1 <= 1) /\ (i + 1) - 1 = i BY <1>1
    <3> QED BY <1>1, <3>1, <3>2, ConcatProperties
  <2> HIDE DEF t
  <2>3. Tail(t) = int
    <3>1. /\ Tail(t) \in Seq(Char) /\ Len(Tail(t)) = Len(int)
          /\ \A i \in 1 .. Len(Tail(t)) : Tail(t)[i] = t[i + 1]
      BY <1>1, <2>1, HeadTailProperties
    <3>2. \A i \in 1 .. Len(int) : Tail(t)[i] = int[i] BY <2>2, <3>1
    <3> QED BY <1>1, <3>1, <3>2, SeqEqual
  <2>4. fromChars(t) = IF -DigitsValue(int) \in Word THEN -DigitsValue(int) ELSE Thrown
    BY <1>1, <2>1, <2>3 DEF fromChars
  <2>5. sign # << >> BY <1>3
  <2> QED BY <1>3, <2>4, <2>5 DEF Signed, ExactOrThrow, t
<1> QED BY <1>2, <1>3 DEF Signs

\* And no other text is.
LEMMA ReadAreDigits ==
    ASSUME NEW t \in Seq(Char), fromChars(t) # Thrown
    PROVE  \E i \in 0 .. 1 :
              /\ i < Len(t) /\ SubSeq(t, 1, i) \in Signs
              /\ SubSeq(t, i + 1, Len(t)) \in Seq(Digits)
<1>1. CASE t # << >> /\ t[1] = Minus
  <2>1. Tail(t) # << >> /\ IsDigits(Tail(t)) BY <1>1 DEF fromChars
  <2>2. Tail(t) \in Seq(Char) /\ Len(Tail(t)) = Len(t) - 1 /\ Tail(t) = SubSeq(t, 2, Len(t))
    BY <1>1, HeadTailProperties, TailIsSubSeq
  <2>3. Tail(t) \in Seq(Digits) BY <2>1, <2>2, RowsOfDigits
  <2>4. Len(Tail(t)) \in Nat \ {0} /\ Len(t) \in Nat BY <2>1, <2>2, EmptySeq, LenProperties
  <2>5. 1 < Len(t) BY <2>2, <2>4
  <2>6. SubSeq(t, 1, 1) = <<Minus>>
    <3>1. SubSeq(t, 1, 1) = <<t[1]>> \o SubSeq(t, 2, 1) BY <2>4, <2>5, SubSeqRecursiveFirst
    <3>2. SubSeq(t, 2, 1) = << >> BY SubSeqEmpty
    <3>3. <<Minus>> \in Seq(Char) BY CharType
    <3> QED BY <1>1, <3>1, <3>2, <3>3, ConcatEmptySeq
  <2>7. 1 + 1 = 2 /\ 1 \in 0 .. 1 OBVIOUS
  <2> QED BY <2>2, <2>3, <2>5, <2>6, <2>7 DEF Signs
<1>2. CASE ~(t # << >> /\ t[1] = Minus)
  <2>1. t # << >> /\ IsDigits(t) BY <1>2 DEF fromChars
  <2>2. t \in Seq(Digits) /\ Len(t) \in Nat \ {0} BY <2>1, RowsOfDigits, EmptySeq
  <2>3. SubSeq(t, 1, 0) = << >> /\ SubSeq(t, 1, Len(t)) = t BY SubSeqEmpty, SubSeqFull
  <2>4. 0 + 1 = 1 /\ 0 \in 0 .. 1 /\ 0 < Len(t) BY <2>2
  <2> QED BY <2>2, <2>3, <2>4 DEF Signs
<1> QED BY <1>1, <1>2

\* The first point is where a point is and none before it.
LEMMA FirstDotFound ==
    ASSUME NEW t \in Seq(Char)
    PROVE  /\ FirstDot(t) = 0 <=> \A i \in 1 .. Len(t) : t[i] # Dot
           /\ FirstDot(t) # 0 => FirstDot(t) \in 1 .. Len(t) /\ t[FirstDot(t)] = Dot
           /\ \A k \in 1 .. Len(t) :
                 t[k] = Dot /\ (\A i \in 1 .. k - 1 : t[i] # Dot) => FirstDot(t) = k
<1> DEFINE I == {i \in 1 .. Len(t) : t[i] = Dot}
<1>1. FirstDot(t) = IF I # {} THEN Min(I) ELSE 0 BY DEF FirstDot, SelectInSeq
<1>2. I \subseteq Nat /\ 0 \notin I BY LenProperties
<1>3. I # {} => Min(I) \in I /\ \A i \in I : Min(I) <= i
  <2> SUFFICES ASSUME I # {} PROVE Min(I) \in I /\ \A i \in I : Min(I) <= i
    OBVIOUS
  <2> HIDE DEF I
  <2>1. \E x \in I : \A y \in I : x =< y BY <1>2, LeastOfNaturals
  <2> QED BY <2>1 DEF Min
<1>4. FirstDot(t) = 0 <=> I = {}
  <2> HIDE DEF I
  <2> QED BY <1>1, <1>2, <1>3
<1>5. FirstDot(t) # 0 => FirstDot(t) \in I
  <2> HIDE DEF I
  <2> QED BY <1>1, <1>3
<1>6. ASSUME NEW k \in 1 .. Len(t), t[k] = Dot, \A i \in 1 .. k - 1 : t[i] # Dot
      PROVE  FirstDot(t) = k
  <2>1. k \in I BY <1>6
  <2>2. Min(I) \in I /\ Min(I) <= k
    <3> HIDE DEF I
    <3> QED BY <1>3, <2>1
  <2>3. PICK m \in I : m = Min(I) BY <2>2
  <2>4. m \in 1 .. Len(t) /\ t[m] = Dot /\ m <= k BY <2>2, <2>3
  <2>5. m = k BY <1>6, <2>4
  <2>6. FirstDot(t) = Min(I)
    <3> HIDE DEF I
    <3> QED BY <1>1, <2>1
  <2> QED BY <2>3, <2>5, <2>6
<1> QED BY <1>4, <1>5, <1>6

\* Scaling a up and adding (taking away) the fraction f, one step at a time, gives the
\* exact total: where a step throws, so does the whole.
AddsUpTo(a, s, f, total) ==
    IF a = Thrown THEN ExactOrThrow(total) = Thrown
    ELSE IF safeMultiply(a, s) = Thrown THEN ExactOrThrow(total) = Thrown
    ELSE safeAdd(safeMultiply(a, s), f) = ExactOrThrow(total)

TakesDownTo(a, s, f, total) ==
    IF a = Thrown THEN ExactOrThrow(total) = Thrown
    ELSE IF safeMultiply(a, s) = Thrown THEN ExactOrThrow(total) = Thrown
    ELSE safeSubstract(safeMultiply(a, s), f) = ExactOrThrow(total)

LEMMA ScaledSum ==
    ASSUME NEW v \in Nat, NEW f \in Nat, NEW s \in Nat, s > 0, s <= WordMax, f <= WordMax
    PROVE  /\ AddsUpTo(ExactOrThrow(v), s, f, v * s + f)
           /\ TakesDownTo(ExactOrThrow(-v), s, f, -(v * s + f))
<1>1. /\ WordMax \in Nat /\ WordMin \in Int /\ WordMin = -WordMax - 1
      /\ \A a : a \in Word <=> a \in Int /\ WordMin <= a /\ a <= WordMax
  BY WordsAreIntegers
<1>2. f \in Word /\ s \in Word BY <1>1
<1>3. PICK p \in Nat : p = v * s BY Products
<1>4. p >= v
  <2>1. 1 <= s OBVIOUS
  <2>2. 1 * v <= s * v BY <2>1, ProductsGrow
  <2>3. 1 * v = v /\ s * v = v * s BY Products
  <2> QED BY <1>3, <2>2, <2>3
<1>5. (-v) * s = -p BY <1>3, ProductOfOpposites
<1>6. AddsUpTo(ExactOrThrow(v), s, f, p + f)
  <2>1. CASE v \notin Word
    <3>1. p + f \notin Word BY <1>1, <1>4, <2>1
    <3> QED BY <2>1, <3>1, WordOrThrown DEF AddsUpTo
  <2>2. CASE v \in Word
    <3>1. ExactOrThrow(v) = v /\ v # Thrown BY <2>2, WordOrThrown
    <3>2. safeMultiply(v, s) = ExactOrThrow(p) BY <1>2, <1>3, <2>2, ThrowingOperations
    <3>3. CASE p \notin Word
      <4>1. p + f \notin Word BY <1>1, <3>3
      <4>2. ExactOrThrow(p + f) = Thrown BY <4>1, WordOrThrown
      <4>3. ExactOrThrow(p) = Thrown BY <3>3, WordOrThrown
      <4> QED BY <3>1, <3>2, <4>2, <4>3 DEF AddsUpTo
    <3>4. CASE p \in Word
      <4>1. ExactOrThrow(p) = p /\ p # Thrown BY <3>4, WordOrThrown
      <4>2. safeAdd(p, f) = ExactOrThrow(p + f) BY <1>2, <3>4, ThrowingOperations
      <4> QED BY <3>1, <3>2, <4>1, <4>2 DEF AddsUpTo
    <3> QED BY <3>3, <3>4
  <2> QED BY <2>1, <2>2
<1>7. TakesDownTo(ExactOrThrow(-v), s, f, -(p + f))
  <2>1. CASE -v \notin Word
    <3>1. -(p + f) \notin Word BY <1>1, <1>4, <2>1
    <3> QED BY <2>1, <3>1, WordOrThrown DEF TakesDownTo
  <2>2. CASE -v \in Word
    <3>1. ExactOrThrow(-v) = -v /\ -v # Thrown BY <2>2, WordOrThrown
    <3>2. safeMultiply(-v, s) = ExactOrThrow(-p) BY <1>2, <1>5, <2>2, ThrowingOperations
    <3>3. CASE -p \notin Word
      <4>1. -(p + f) \notin Word BY <1>1, <3>3
      <4>2. ExactOrThrow(-(p + f)) = Thrown BY <4>1, WordOrThrown
      <4>3. ExactOrThrow(-p) = Thrown BY <3>3, WordOrThrown
      <4> QED BY <3>1, <3>2, <4>2, <4>3 DEF TakesDownTo
    <3>4. CASE -p \in Word
      <4>1. ExactOrThrow(-p) = -p /\ -p # Thrown BY <3>4, WordOrThrown
      <4>2. safeSubstract(-p, f) = ExactOrThrow(-p - f) BY <1>2, <3>4, ThrowingOperations
      <4>3. -p - f = -(p + f) OBVIOUS
      <4> QED BY <3>1, <3>2, <4>1, <4>2, <4>3 DEF TakesDownTo
    <3> QED BY <3>3, <3>4
  <2> QED BY <2>1, <2>2
<1> QED BY <1>3, <1>6, <1>7

\* The digits behind the point.
LEMMA FractionIsRead ==
    ASSUME NEW frac \in Seq(Digits), Len(frac) <= Places
    PROVE  /\ parseFractionalPart(frac) = DigitsValue(frac) * Power[Places - Len(frac)]
           /\ parseFractionalPart(frac) \in Nat /\ parseFractionalPart(frac) <= WordMax
           /\ parseFractionalPart(frac) # Thrown
<1>1. Len(frac) \in Nat /\ Places - Len(frac) \in Nat BY LenProperties, BaseFacts
<1>2. PICK v \in Nat : v = DigitsValue(frac) BY DigitsAreNatural
<1>3. PICK p \in Nat : p = Power[Places - Len(frac)] BY <1>1, PowerUnfolds
<1>4. PICK q \in Nat : q = Power[Len(frac)] BY <1>1, PowerUnfolds
<1>5. parseFractionalPart(frac) = v * p
  <2>1. CASE frac = << >>
    <3>1. v = 0 BY <1>2, <2>1, DigitsProperties
    <3>2. 0 * p = 0 BY Products
    <3> QED BY <2>1, <3>1, <3>2 DEF parseFractionalPart
  <2>2. CASE frac # << >>
    <3>1. IsDigits(frac) BY DigitsAreChars
    <3>2. ~(Len(frac) > Places) BY <1>1, BaseFacts
    <3> QED BY <1>2, <1>3, <2>2, <3>1, <3>2 DEF parseFractionalPart
  <2> QED BY <2>1, <2>2
<1>6. v <= q
  <2>1. v < q BY <1>1, <1>2, <1>4, DigitsBelowPower
  <2> QED BY <2>1
<1>7. v * p <= q * p BY <1>6, ProductsGrow
<1>8. q * p = Power[Places]
  <2>1. Len(frac) + (Places - Len(frac)) = Places BY <1>1, BaseFacts
  <2> QED BY <1>1, <1>3, <1>4, <2>1, PowerOfSum
<1>9. PICK x \in Nat : x = v * p BY Products
<1>10. x <= WordMax
  <2>1. PICK y \in Nat : y = Power[Places] BY BaseFacts, PowerUnfolds
  <2>2. PICK w \in Nat : w = WordMax BY WordsAreIntegers
  <2> QED BY <1>7, <1>8, <1>9, <2>1, <2>2, BaseFacts
<1>11. x # Thrown
  <2>1. PICK w \in Nat : w = WordMax BY WordsAreIntegers
  <2> QED BY <1>10, <2>1 DEF Thrown
<1> QED BY <1>2, <1>3, <1>5, <1>9, <1>10, <1>11

LEMMA ScaleFacts ==
    SCALE = Power[Places] /\ SCALE \in Nat /\ SCALE > 0 /\ SCALE <= WordMax /\ SCALE \in Word
<1>1. SCALE = Power[Places] BY DEF SCALE
<1>2. SCALE \in Nat /\ SCALE > Places BY <1>1, BaseFacts, PowerGrows
<1>3. SCALE > 0
  <2>1. PICK s \in Nat : s = SCALE BY <1>2
  <2>2. PICK p \in Nat : p = Places BY BaseFacts
  <2> QED BY <1>2, <2>1, <2>2
<1>4. SCALE <= WordMax BY <1>1, BaseFacts
<1> QED BY <1>1, <1>2, <1>3, <1>4, WordsAreIntegers

\* Before the point there is none, and a minus only where the sign is.
LEMMA SignedDigits ==
    ASSUME NEW sign \in Signs, NEW int \in Seq(Digits)
    PROVE  /\ sign \o int \in Seq(Char) /\ Len(sign \o int) = Len(sign) + Len(int)
           /\ Len(sign) \in Nat /\ Len(int) \in Nat
           /\ \A i \in 1 .. Len(sign \o int) : (sign \o int)[i] # Dot
           /\ Len(sign \o int) > 0 => ((sign \o int)[1] = Minus <=> sign # << >>)
           /\ sign # << >> => Len(sign \o int) > 0
<1>1. /\ sign \in Seq(Char) /\ int \in Seq(Char) /\ Len(sign) \in 0 .. 1 /\ Len(int) \in Nat
      /\ \A i \in 1 .. Len(int) : int[i] \in Digits
  BY SignsAndPoints, DigitsAreChars, LenProperties, ElementOfSeq
<1> DEFINE t == sign \o int
<1>2. /\ t \in Seq(Char) /\ Len(t) = Len(sign) + Len(int)
      /\ \A i \in 1 .. Len(sign) + Len(int) :
            t[i] = IF i <= Len(sign) THEN sign[i] ELSE int[i - Len(sign)]
  BY <1>1, ConcatProperties
<1> HIDE DEF t
<1>3. CASE sign = << >>
  <2>1. Len(sign) = 0 BY <1>3, EmptySeq
  <2>2. ASSUME NEW i \in 1 .. Len(t) PROVE t[i] \in Digits
    <3>1. i - Len(sign) = i /\ i \in 1 .. Len(int) /\ ~(i <= Len(sign)) /\ i \in 1 .. Len(sign) + Len(int)
      BY <1>1, <1>2, <2>1
    <3> QED BY <1>1, <1>2, <3>1
  <2>3. \A i \in 1 .. Len(t) : t[i] # Dot /\ t[i] # Minus BY <2>2, CharType
  <2>4. Len(t) > 0 => 1 \in 1 .. Len(t) BY <1>1, <1>2
  <2> QED BY <1>1, <1>2, <1>3, <2>3, <2>4 DEF t
<1>4. CASE sign = <<Minus>>
  <2>1. Len(sign) = 1 /\ sign[1] = Minus /\ sign # << >> BY <1>4
  <2>2. t[1] = Minus /\ Len(t) > 0
    <3>1. 1 \in 1 .. Len(sign) + Len(int) /\ 1 <= Len(sign) BY <1>1, <2>1
    <3> QED BY <1>1, <1>2, <2>1, <3>1
  <2>3. ASSUME NEW i \in 1 .. Len(t), i # 1 PROVE t[i] \in Digits
    <3>1. i - Len(sign) \in 1 .. Len(int) /\ ~(i <= Len(sign)) /\ i \in 1 .. Len(sign) + Len(int)
      BY <1>1, <1>2, <2>1, <2>3
    <3> QED BY <1>1, <1>2, <3>1
  <2>4. \A i \in 1 .. Len(t) : t[i] # Dot BY <2>2, <2>3, CharType
  <2> QED BY <1>1, <1>2, <2>1, <2>2, <2>4 DEF t
<1> QED BY <1>3, <1>4 DEF Signs

\* A number without a point.
LEMMA IntegerIsRead ==
    ASSUME NEW sign \in Signs, NEW int \in Seq(Digits), int # << >>
    PROVE  parseDecimal(sign \o int) = ExactOrThrow(Signed(sign, DigitsValue(int) * SCALE))
<1> DEFINE t == sign \o int
<1>1. FirstDot(t) = 0
  <2>1. t \in Seq(Char) /\ \A i \in 1 .. Len(t) : t[i] # Dot BY SignedDigits
  <2> HIDE DEF t
  <2> QED BY <2>1, FirstDotFound
<1>2. PICK v \in Nat : v = DigitsValue(int) BY DigitsAreNatural
<1>3. PICK s \in Nat : s = SCALE /\ s > 0 /\ s <= WordMax /\ s \in Word BY ScaleFacts
<1>4. PICK p \in Nat : p = v * s BY Products
<1> DEFINE value == fromChars(t)
<1>5. value = ExactOrThrow(Signed(sign, v)) BY <1>2, DigitsAreRead
<1>6. parseDecimal(t) = IF value = Thrown THEN Thrown ELSE safeMultiply(value, s)
  <2> HIDE DEF t
  <2> QED BY <1>1, <1>3 DEF parseDecimal, ParseInteger
<1> HIDE DEF value, t
<1>7. Signed(sign, v) * s = Signed(sign, p)
  <2>1. (-v) * s = -p BY <1>4, ProductOfOpposites
  <2> QED BY <1>4, <2>1 DEF Signed
<1>8. CASE value = Thrown
  <2>1. ExactOrThrow(Signed(sign, p)) = Thrown
    <3>0. 0 \in Nat /\ 0 <= WordMax BY WordsAreIntegers
    <3>1. /\ AddsUpTo(ExactOrThrow(v), s, 0, v * s + 0)
          /\ TakesDownTo(ExactOrThrow(-v), s, 0, -(v * s + 0))
      BY <1>3, <3>0, ScaledSum
    <3>2. v * s + 0 = p BY <1>4
    <3>3. /\ ExactOrThrow(v) = Thrown => ExactOrThrow(p) = Thrown
          /\ ExactOrThrow(-v) = Thrown => ExactOrThrow(-p) = Thrown
      BY <3>1, <3>2 DEF AddsUpTo, TakesDownTo
    <3> QED BY <1>5, <1>8, <3>3 DEF Signed
  <2> QED BY <1>2, <1>3, <1>4, <1>6, <1>8, <2>1 DEF t
<1>9. CASE value # Thrown
  <2>1. value = Signed(sign, v) /\ value \in Word BY <1>5, <1>9, WordOrThrown
  <2>2. safeMultiply(value, s) = ExactOrThrow(value * s) BY <1>3, <2>1, ThrowingOperations
  <2> QED BY <1>2, <1>3, <1>4, <1>6, <1>7, <1>9, <2>1, <2>2 DEF t
<1> QED BY <1>8, <1>9

LEMMA PartsOfConcat ==
    ASSUME NEW X, NEW s \in Seq(X), NEW t \in Seq(X)
    PROVE  SubSeq(s \o t, 1, Len(s)) = s /\ SubSeq(s \o t, Len(s) + 1, Len(s \o t)) = t
<1>1. /\ s \o t \in Seq(X) /\ Len(s \o t) = Len(s) + Len(t) /\ Len(s) \in Nat /\ Len(t) \in Nat
      /\ \A i \in 1 .. Len(s) + Len(t) : (s \o t)[i] = IF i <= Len(s) THEN s[i] ELSE t[i - Len(s)]
  BY ConcatProperties, LenProperties
<1> DEFINE r == s \o t
           n == Len(s)
           m == Len(t)
<1>2. \A i \in 1 .. n + m : r[i] \in X BY <1>1, ElementOfSeq
<1> HIDE DEF r
<1>3. SubSeq(r, 1, n) = s
  <2>1. \A i \in 1 .. n : r[i] \in X BY <1>1, <1>2
  <2>2. /\ SubSeq(r, 1, n) \in Seq(X) /\ Len(SubSeq(r, 1, n)) = n
        /\ \A i \in 1 .. n : SubSeq(r, 1, n)[i] = r[i]
    <3>1. /\ SubSeq(r, 1, n) \in Seq(X)
          /\ Len(SubSeq(r, 1, n)) = IF 1 <= n THEN n - 1 + 1 ELSE 0
          /\ \A i \in 1 .. n - 1 + 1 : SubSeq(r, 1, n)[i] = r[1 + i - 1]
      BY <1>1, <2>1, SubSeqProperties
    <3>2. n - 1 + 1 = n /\ \A i \in 1 .. n : 1 + i - 1 = i BY <1>1
    <3> QED BY <1>1, <3>1, <3>2
  <2>3. \A i \in 1 .. n : r[i] = s[i]
    <3> SUFFICES ASSUME NEW i \in 1 .. n PROVE r[i] = s[i]
      OBVIOUS
    <3>1. i \in 1 .. n + m /\ i <= n BY <1>1
    <3> QED BY <1>1, <3>1 DEF r
  <2>4. \A i \in 1 .. n : SubSeq(r, 1, n)[i] = s[i] BY <2>2, <2>3
  <2> QED BY <2>2, <2>4, SeqEqual
<1>4. SubSeq(r, n + 1, n + m) = t
  <2>1. \A i \in n + 1 .. n + m : r[i] \in X BY <1>1, <1>2
  <2> DEFINE u == SubSeq(r, n + 1, n + m)
  <2>2. u \in Seq(X) /\ Len(u) = m /\ \A i \in 1 .. m : u[i] = r[n + i]
    <3>0. n + 1 \in Int /\ n + m \in Int BY <1>1
    <3>1. /\ u \in Seq(X)
          /\ Len(u) = IF n + 1 <= n + m THEN (n + m) - (n + 1) + 1 ELSE 0
          /\ \A i \in 1 .. (n + m) - (n + 1) + 1 : u[i] = r[(n + 1) + i - 1]
      BY <2>1, <3>0, SubSeqProperties
    <3>2. /\ (n + m) - (n + 1) + 1 = m /\ (n + 1 <= n + m <=> 1 <= m)
          /\ \A i \in 1 .. m : (n + 1) + i - 1 = n + i
      BY <1>1
    <3> HIDE DEF u
    <3> QED BY <1>1, <3>1, <3>2
  <2>3. \A i \in 1 .. m : r[n + i] = t[i]
    <3> SUFFICES ASSUME NEW i \in 1 .. m PROVE r[n + i] = t[i]
      OBVIOUS
    <3>1. n + i \in 1 .. n + m /\ ~(n + i <= n) /\ (n + i) - n = i BY <1>1
    <3> QED BY <1>1, <3>1 DEF r
  <2>4. \A i \in 1 .. m : u[i] = t[i] BY <2>2, <2>3
  <2> HIDE DEF u
  <2> QED BY <2>2, <2>4, SeqEqual DEF u
<1> QED BY <1>1, <1>3, <1>4 DEF r

\* A number with a point.
LEMMA DecimalIsRead ==
    ASSUME NEW sign \in Signs, NEW int \in Seq(Digits), NEW frac \in Seq(Digits),
           Len(frac) <= Places, int = << >> => sign = << >> /\ frac # << >>
    PROVE  parseDecimal((sign \o int) \o (<<Dot>> \o frac))
             = ExactOrThrow(Signed(sign, DigitsValue(int) * SCALE
                                            + DigitsValue(frac) * Power[Places - Len(frac)]))
<1> DEFINE a == sign \o int
           b == <<Dot>> \o frac
           t == a \o b
           d == Len(a) + 1
<1>1. /\ a \in Seq(Char) /\ Len(a) = Len(sign) + Len(int)
      /\ Len(sign) \in Nat /\ Len(int) \in Nat /\ Len(a) \in Nat
      /\ \A i \in 1 .. Len(a) : a[i] # Dot
      /\ Len(a) > 0 => (a[1] = Minus <=> sign # << >>)
      /\ sign # << >> => Len(a) > 0
  BY SignedDigits, LenProperties
<1>2. frac \in Seq(Char) /\ Len(frac) \in Nat BY DigitsAreChars, LenProperties
<1>3. <<Dot>> \in Seq(Char) /\ Len(<<Dot>>) = 1 /\ <<Dot>>[1] = Dot BY CharType
<1> HIDE DEF a
<1>4. b \in Seq(Char) /\ Len(b) = 1 + Len(frac) /\ b[1] = Dot
  <2>1. 1 \in 1 .. 1 + Len(frac) BY <1>2
  <2> QED BY <1>2, <1>3, <2>1, ConcatProperties
<1>5. t = (a \o <<Dot>>) \o frac
  <2>1. (a \o <<Dot>>) \o frac = a \o (<<Dot>> \o frac)
    <3>1. PICK q \in Seq(Char), p \in Seq(Char), r \in Seq(Char) :
                q = a /\ p = <<Dot>> /\ r = frac
      <4>1. a \in Seq(Char) BY <1>1
      <4>2. frac \in Seq(Char) BY <1>2
      <4>3. <<Dot>> \in Seq(Char) BY <1>3
      <4> QED BY <4>1, <4>2, <4>3
    <3>2. (q \o p) \o r = q \o (p \o r) BY ConcatAssociative
    <3> QED BY <3>1, <3>2
  <2> QED BY <2>1
<1>6. a \o <<Dot>> \in Seq(Char) /\ Len(a \o <<Dot>>) = d BY <1>1, <1>3, ConcatProperties
<1> HIDE DEF b
<1>7. /\ t \in Seq(Char) /\ Len(t) = d + Len(frac) /\ t[d] = Dot
      /\ \A i \in 1 .. Len(a) : t[i] = a[i]
  <2>0. PICK u \in Seq(Char), w \in Seq(Char) : u = a /\ w = b BY <1>1, <1>4
  <2>10. /\ u \o w \in Seq(Char) /\ Len(u \o w) = Len(u) + Len(w)
         /\ \A i \in 1 .. Len(u) + Len(w) : (u \o w)[i] = IF i <= Len(u) THEN u[i]
                                                          ELSE w[i - Len(u)]
    BY ConcatProperties
  <2>11. t = u \o w BY <2>0
  <2>1. t \in Seq(Char) /\ Len(t) = Len(a) + Len(b) BY <2>0, <2>10, <2>11
  <2>2. \A i \in 1 .. Len(a) + Len(b) : t[i] = IF i <= Len(a) THEN a[i] ELSE b[i - Len(a)]
    <3> HIDE DEF t
    <3> QED BY <2>0, <2>10, <2>11
  <2> HIDE DEF t
  <2>3. d \in 1 .. Len(a) + Len(b) /\ ~(d <= Len(a)) /\ d - Len(a) = 1 BY <1>1, <1>2, <1>4
  <2>4. \A i \in 1 .. Len(a) : i \in 1 .. Len(a) + Len(b) /\ i <= Len(a) BY <1>1, <1>2, <1>4
  <2>5. Len(a) + Len(b) = d + Len(frac) BY <1>1, <1>2, <1>4
  <2> QED BY <1>4, <2>1, <2>2, <2>3, <2>4, <2>5
<1>8. SubSeq(t, 1, d - 1) = a
  <2>1. d - 1 = Len(a) BY <1>1
  <2> QED BY <1>1, <1>4, <2>1, PartsOfConcat
<1>9. SubSeq(t, d + 1, Len(t)) = frac BY <1>2, <1>5, <1>6, PartsOfConcat
<1> HIDE DEF t
<1>10. FirstDot(t) = d /\ d # 0
  <2>1. d \in 1 .. Len(t) /\ d - 1 = Len(a) /\ d # 0 BY <1>1, <1>2, <1>7
  <2>2. \A i \in 1 .. d - 1 : t[i] # Dot BY <1>1, <1>7, <2>1
  <2> QED BY <1>7, <2>1, <2>2, FirstDotFound
<1>11. t[1] = Minus <=> sign # << >>
  <2>1. CASE Len(a) > 0
    <3>1. 1 \in 1 .. Len(a) BY <1>1, <2>1
    <3> QED BY <1>1, <1>7, <2>1, <3>1
  <2>2. CASE ~(Len(a) > 0)
    <3>1. d = 1 BY <1>1, <2>2
    <3> QED BY <1>1, <1>7, <2>2, <3>1, CharType
  <2> QED BY <2>1, <2>2
<1>12. int = << >> => Len(a) = 0
  <2>1. Len(<< >>) = 0 BY EmptySeq
  <2> QED BY <1>1, <2>1
<1>13. t # <<Dot>>
  <2> SUFFICES ASSUME t = <<Dot>> PROVE FALSE
    OBVIOUS
  <2>1. Len(int) = 0 /\ Len(frac) = 0 BY <1>1, <1>2, <1>3, <1>7
  <2>2. int = << >> /\ frac = << >> BY <2>1, EmptySeq
  <2> QED BY <2>2
<1> DEFINE intPart  == IF d > 1 THEN fromChars(a) ELSE 0
           fracPart == parseFractionalPart(frac)
           scaled   == safeMultiply(intPart, SCALE)
<1>14. PICK v \in Nat : v = DigitsValue(int) BY DigitsAreNatural
<1>15. intPart = ExactOrThrow(Signed(sign, v))
  <2>1. CASE int # << >>
    <3>1. d > 1
      <4>1. Len(int) \in Nat \ {0} BY <2>1, EmptySeq
      <4> QED BY <1>1, <4>1
    <3> QED BY <1>14, <2>1, <3>1, DigitsAreRead DEF a
  <2>2. CASE int = << >>
    <3>1. ~(d > 1) BY <1>1, <1>12, <2>2
    <3>2. v = 0 /\ sign = << >> BY <1>14, <2>2, DigitsProperties
    <3>3. 0 \in Word BY WordsAreIntegers
    <3> QED BY <3>1, <3>2, <3>3, WordOrThrown DEF Signed
  <2> QED BY <2>1, <2>2
<1>16. PICK f \in Nat : f = fracPart /\ f <= WordMax /\ f # Thrown
                          /\ f = DigitsValue(frac) * Power[Places - Len(frac)]
  BY FractionIsRead
<1>17. parseDecimal(t)
         = IF intPart = Thrown THEN Thrown
           ELSE IF scaled = Thrown THEN Thrown
           ELSE IF sign # << >> THEN safeSubstract(scaled, f) ELSE safeAdd(scaled, f)
  <2>1. parseDecimal(t) = ParseWithDot(t, d) BY <1>10 DEF parseDecimal
  <2> HIDE DEF d
  <2> QED BY <1>8, <1>9, <1>11, <1>13, <1>16, <2>1 DEF ParseWithDot
<1> HIDE DEF intPart, fracPart, d
<1>18. PICK s \in Nat : s = SCALE /\ s > 0 /\ s <= WordMax BY ScaleFacts
<1> DEFINE sum == v * s + f
<1>19. parseDecimal(t) = ExactOrThrow(Signed(sign, sum))
  <2>1. CASE sign = << >>
    <3>1. intPart = ExactOrThrow(v) BY <1>15, <2>1 DEF Signed
    <3>2. AddsUpTo(intPart, s, f, sum)
      <4>1. AddsUpTo(ExactOrThrow(v), s, f, v * s + f) BY <1>16, <1>18, ScaledSum
      <4> QED BY <3>1, <4>1
    <3> HIDE DEF sum
    <3> QED BY <1>17, <1>18, <2>1, <3>2 DEF Signed, AddsUpTo
  <2>2. CASE sign # << >>
    <3>1. intPart = ExactOrThrow(-v) BY <1>15, <2>2 DEF Signed
    <3>2. TakesDownTo(intPart, s, f, -sum)
      <4>1. TakesDownTo(ExactOrThrow(-v), s, f, -(v * s + f)) BY <1>16, <1>18, ScaledSum
      <4> QED BY <3>1, <4>1
    <3> HIDE DEF sum
    <3> QED BY <1>17, <1>18, <2>2, <3>2 DEF Signed, TakesDownTo
  <2> QED BY <2>1, <2>2
<1> QED BY <1>14, <1>16, <1>18, <1>19 DEF t, a, b

\* Where a text is cut into a sign, digits, a point and more digits.
IsCut(t, i, j, k) ==
    /\ i \in 0 .. 1 /\ j \in 0 .. Len(t) /\ k \in 0 .. Len(t)
    /\ i <= j /\ j <= k /\ k <= j + 1
    /\ Number(SubSeq(t, 1, i), SubSeq(t, i + 1, j), SubSeq(t, j + 1, k), SubSeq(t, k + 1, Len(t)))

LEMMA PartOfText ==
    ASSUME NEW t \in Seq(Char), NEW m \in Nat, NEW n \in Nat, m >= 1, n <= Len(t)
    PROVE  SubSeq(t, m, n) \in Seq(Char) /\ Len(SubSeq(t, m, n)) = IF m <= n THEN n - m + 1 ELSE 0
<1>1. \A i \in m .. n : t[i] \in Char
  <2> SUFFICES ASSUME NEW i \in m .. n PROVE t[i] \in Char
    OBVIOUS
  <2>1. i \in 1 .. Len(t) BY LenProperties
  <2> QED BY <2>1, ElementOfSeq
<1> QED BY <1>1, SubSeqProperties

\* A text that can be cut is read as what its parts weigh.
LEMMA NumberIsRead ==
    ASSUME NEW t \in Seq(Char), NEW i, NEW j, NEW k, IsCut(t, i, j, k)
    PROVE  LET weight == Weight(SubSeq(t, i + 1, j), SubSeq(t, k + 1, Len(t)))
           IN  parseDecimal(t) = ExactOrThrow(Signed(SubSeq(t, 1, i), weight))
<1> DEFINE n == Len(t)
           sign == SubSeq(t, 1, i)
           int == SubSeq(t, i + 1, j)
           point == SubSeq(t, j + 1, k)
           frac == SubSeq(t, k + 1, n)
<1>1. /\ n \in Nat /\ i \in Nat /\ j \in Nat /\ k \in Nat
      /\ i <= j /\ j <= k /\ k <= n
  BY LenProperties DEF IsCut
<1>2. Number(sign, int, point, frac) BY DEF IsCut
<1>3. /\ sign \in Seq(Char) /\ int \in Seq(Char) /\ point \in Seq(Char) /\ frac \in Seq(Char)
  <2>1. sign \in Seq(Char)
    <3>1. 1 \in Nat /\ i <= Len(t) BY <1>1
    <3> QED BY <1>1, <3>1, PartOfText
  <2>2. int \in Seq(Char)
    <3>1. i + 1 \in Nat /\ i + 1 >= 1 /\ j <= Len(t) BY <1>1
    <3> QED BY <1>1, <3>1, PartOfText
  <2>3. point \in Seq(Char)
    <3>1. j + 1 \in Nat /\ j + 1 >= 1 /\ k <= Len(t) BY <1>1
    <3> QED BY <1>1, <3>1, PartOfText
  <2>4. frac \in Seq(Char)
    <3>1. k + 1 \in Nat /\ k + 1 >= 1 /\ n <= Len(t) BY <1>1
    <3> QED BY <1>1, <3>1, PartOfText
  <2> QED BY <2>1, <2>2, <2>3, <2>4
<1>4. t = (sign \o int) \o (point \o frac)
  <2>1. sign \o int = SubSeq(t, 1, j)
    <3>1. 1 \in 1 .. Len(t) + 1 /\ i \in 1 - 1 .. Len(t) /\ j \in i .. Len(t) BY <1>1
    <3> QED BY <3>1, ConcatAdjacentSubSeq
  <2>2. point \o frac = SubSeq(t, j + 1, n)
    <3>1. j + 1 \in 1 .. Len(t) + 1 /\ k \in (j + 1) - 1 .. Len(t) /\ n \in k .. Len(t) BY <1>1
    <3> QED BY <3>1, ConcatAdjacentSubSeq
  <2>3. SubSeq(t, 1, j) \o SubSeq(t, j + 1, n) = SubSeq(t, 1, n)
    <3>1. 1 \in 1 .. Len(t) + 1 /\ j \in 1 - 1 .. Len(t) /\ n \in j .. Len(t) BY <1>1
    <3> QED BY <3>1, ConcatAdjacentSubSeq
  <2>4. SubSeq(t, 1, n) = t BY SubSeqFull
  <2> QED BY <2>1, <2>2, <2>3, <2>4
<1> HIDE DEF n, sign, int, point, frac
<1>5. /\ int \in Seq(Digits) /\ frac \in Seq(Digits) /\ Len(frac) <= Places
      /\ sign \in Signs /\ point \in Points
      /\ int = << >> => sign = << >> /\ frac # << >>
      /\ point = << >> => frac = << >>
  BY <1>2, <1>3, RowsOfDigits DEF Number, Signs, Points
<1>6. Weight(int, frac) = DigitsValue(int) * SCALE
                            + DigitsValue(frac) * Power[Places - Len(frac)]
  BY <1>5, WeightOfNumber
<1>7. parseDecimal(t) = ExactOrThrow(Signed(sign, Weight(int, frac)))
  <2>1. CASE point = <<Dot>>
    <3>1. parseDecimal((sign \o int) \o (<<Dot>> \o frac))
            = ExactOrThrow(Signed(sign, DigitsValue(int) * SCALE
                                          + DigitsValue(frac) * Power[Places - Len(frac)]))
      BY <1>5, DecimalIsRead
    <3> QED BY <1>4, <1>6, <2>1, <3>1
  <2>2. CASE point = << >>
    <3>1. frac = << >> /\ int # << >> BY <1>5, <2>2
    <3>2. t = sign \o int
      <4>1. point \o frac = << >> BY <1>3, <2>2, <3>1, ConcatEmptySeq
      <4>2. sign \o int \in Seq(Char) BY <1>3, ConcatProperties
      <4> QED BY <1>4, <4>1, <4>2, ConcatEmptySeq
    <3>3. Weight(int, frac) = DigitsValue(int) * SCALE
      <4>1. Places - Len(frac) = Places BY <3>1, BaseFacts, EmptySeq
      <4>2. DigitsValue(frac) = 0 BY <3>1, DigitsProperties
      <4>3. PICK q \in Nat : q = Power[Places] BY BaseFacts, PowerUnfolds
      <4>4. PICK v \in Nat : v = DigitsValue(int) BY <1>5, DigitsAreNatural
      <4>5. PICK s \in Nat : s = SCALE BY ScaleFacts
      <4>6. PICK p \in Nat : p = v * s BY Products
      <4>7. 0 * q = 0 BY Products
      <4>8. p + 0 = p OBVIOUS
      <4> QED BY <1>6, <4>1, <4>2, <4>3, <4>4, <4>5, <4>6, <4>7, <4>8
    <3> QED BY <1>5, <3>1, <3>2, <3>3, IntegerIsRead
  <2> QED BY <1>5, <2>1, <2>2 DEF Points
<1> QED BY <1>7 DEF n, sign, int, frac

LEMMA EmptyRow ==
    << >> \in Seq(Digits) /\ IsDigits(<< >>) /\ Len(<< >>) <= Places
<1>1. << >> \in Seq(Digits) /\ Len(<< >>) = 0 BY EmptySeq
<1>2. IsDigits(<< >>) BY <1>1, DigitsAreChars
<1>3. PICK p \in Nat : p = Places BY BaseFacts
<1>4. 0 <= p OBVIOUS
<1> QED BY <1>1, <1>2, <1>3, <1>4

\* A text that is read can be cut.
LEMMA ReadIsNumber ==
    ASSUME NEW t \in Seq(Char), parseDecimal(t) # Thrown
    PROVE  \E i, j, k : IsCut(t, i, j, k)
<1> DEFINE n == Len(t)
           d == FirstDot(t)
<1>1. n \in Nat BY LenProperties
<1>2. CASE d = 0
  <2>1. fromChars(t) # Thrown BY <1>2 DEF parseDecimal, ParseInteger
  <2>2. PICK i \in 0 .. 1 :
           /\ i < n /\ SubSeq(t, 1, i) \in Signs /\ SubSeq(t, i + 1, n) \in Seq(Digits)
    BY <2>1, ReadAreDigits
  <2>3. SubSeq(t, n + 1, n) = << >> BY <1>1, SubSeqEmpty
  <2>4. SubSeq(t, i + 1, n) # << >>
    <3>1. i + 1 \in Nat /\ i + 1 >= 1 /\ i + 1 <= n /\ n - (i + 1) + 1 # 0 BY <1>1, <2>2
    <3>2. Len(SubSeq(t, i + 1, n)) = n - (i + 1) + 1 BY <1>1, <3>1, PartOfText
    <3> QED BY <3>1, <3>2, EmptySeq
  <2>5. IsDigits(SubSeq(t, i + 1, n)) /\ IsDigits(<< >>) /\ Len(<< >>) <= Places
    <3>1. IsDigits(SubSeq(t, i + 1, n)) BY <2>2, DigitsAreChars
    <3> QED BY <3>1, EmptyRow
  <2>6. Number(SubSeq(t, 1, i), SubSeq(t, i + 1, n), << >>, << >>)
    BY <2>2, <2>4, <2>5 DEF Number, Signs
  <2>7. i \in 0 .. 1 /\ n \in 0 .. n /\ i <= n /\ n <= n /\ n <= n + 1 BY <1>1, <2>2
  <2>8. IsCut(t, i, n, n) BY <2>3, <2>6, <2>7 DEF IsCut
  <2> QED BY <2>8
<1>3. CASE d # 0
  <2>1. d \in 1 .. n /\ t[d] = Dot BY <1>3, FirstDotFound
  <2> DEFINE a == SubSeq(t, 1, d - 1)
             frac == SubSeq(t, d + 1, n)
  <2>2. /\ parseFractionalPart(frac) # Thrown /\ t # <<Dot>>
        /\ d > 1 => fromChars(a) # Thrown
    <3>1. ParseWithDot(t, d) # Thrown BY <1>3 DEF parseDecimal
    <3> HIDE DEF d
    <3> QED BY <3>1 DEF ParseWithDot
  <2>3. d \in Nat /\ d - 1 \in Nat /\ d - 1 <= n /\ d <= n /\ d >= 1 BY <1>1, <2>1
  <2> HIDE DEF d
  <2>4. a \in Seq(Char) /\ Len(a) = d - 1
    <3>1. 1 \in Nat /\ 1 >= 1 /\ (d - 1) - 1 + 1 = d - 1 /\ (1 <= d - 1 \/ d - 1 = 0) BY <2>3
    <3>2. /\ SubSeq(t, 1, d - 1) \in Seq(Char)
          /\ Len(SubSeq(t, 1, d - 1)) = IF 1 <= d - 1 THEN (d - 1) - 1 + 1 ELSE 0
      BY <2>3, <3>1, PartOfText
    <3> QED BY <3>1, <3>2
  <2>5. frac \in Seq(Char) /\ (frac = << >> => n = d)
    <3>1. d + 1 \in Nat /\ d + 1 >= 1 /\ (d + 1 <= n => n - (d + 1) + 1 # 0) BY <1>1, <2>3
    <3>2. /\ frac \in Seq(Char)
          /\ Len(frac) = IF d + 1 <= n THEN n - (d + 1) + 1 ELSE 0
      BY <1>1, <3>1, PartOfText
    <3>3. frac = << >> => Len(frac) = 0 BY EmptySeq
    <3>4. ~(d + 1 <= n) => n = d BY <1>1, <2>3
    <3> QED BY <3>1, <3>2, <3>3, <3>4
  <2>6. IsDigits(frac) /\ Len(frac) <= Places
    <3>1. CASE frac = << >>
      <4> HIDE DEF frac
      <4> QED BY <3>1, EmptyRow
    <3>2. CASE frac # << >>
      <4>1. ~(Len(frac) > Places) /\ IsDigits(frac) BY <2>2, <3>2 DEF parseFractionalPart
      <4>2. PICK m \in Nat : m = Len(frac)
        <5> HIDE DEF frac
        <5> QED BY <2>5, LenProperties
      <4>3. PICK p \in Nat : p = Places BY BaseFacts
      <4>4. ~(m > p) BY <4>1, <4>2, <4>3
      <4>5. m <= p BY <4>4
      <4> QED BY <4>1, <4>2, <4>3, <4>5
    <3> QED BY <3>1, <3>2
  <2>7. SubSeq(t, d, d) = <<Dot>>
    <3>1. SubSeq(t, d, d) = <<t[d]>> \o SubSeq(t, d + 1, d)
      <4>1. d \in 1 .. Len(t) /\ d \in d .. Len(t) BY <1>1, <2>1
      <4> QED BY <4>1, SubSeqRecursiveFirst
    <3>2. SubSeq(t, d + 1, d) = << >> BY <2>3, SubSeqEmpty
    <3>3. <<Dot>> \in Seq(Char) BY CharType
    <3> QED BY <2>1, <3>1, <3>2, <3>3, ConcatEmptySeq
  <2>8. d - 1 + 1 = d BY <2>3
  <2>9. CASE d > 1
    <3>1. PICK i \in 0 .. 1 :
             /\ i < d - 1 /\ SubSeq(a, 1, i) \in Signs /\ SubSeq(a, i + 1, d - 1) \in Seq(Digits)
      <4> HIDE DEF a
      <4>1. \E i \in 0 .. 1 :
              /\ i < Len(a) /\ SubSeq(a, 1, i) \in Signs /\ SubSeq(a, i + 1, Len(a)) \in Seq(Digits)
        BY <2>2, <2>4, <2>9, ReadAreDigits
      <4> QED BY <2>4, <4>1
    <3>2. 1 \in 1 .. Len(t) /\ d - 1 \in 1 .. Len(t) /\ (d - 1) - 1 + 1 = d - 1
      BY <1>1, <2>1, <2>9
    <3>3. SubSeq(a, 1, i) = SubSeq(t, 1, i)
      <4>1. CASE i = 0 BY <4>1, SubSeqEmpty
      <4>2. CASE i = 1
        <5>1. i \in 1 .. (d - 1) - 1 + 1 /\ 1 + i - 1 = i BY <3>1, <3>2, <4>2
        <5>2. SubSeq(a, i, i) = SubSeq(t, 1 + i - 1, 1 + i - 1) BY <3>2, <5>1, SubSeqOfSubSeq
        <5>3. SubSeq(a, i, i) = SubSeq(t, i, i) BY <5>1, <5>2
        <5> HIDE DEF a
        <5> QED BY <4>2, <5>3
      <4>3. i = 0 \/ i = 1 OBVIOUS
      <4> HIDE DEF a
      <4> QED BY <4>1, <4>2, <4>3
    <3>4. SubSeq(a, i + 1, d - 1) = SubSeq(t, i + 1, d - 1)
      <4>1. /\ i + 1 \in 1 .. (d - 1) - 1 + 1 /\ d - 1 \in 1 .. (d - 1) - 1 + 1
            /\ 1 + (i + 1) - 1 = i + 1 /\ 1 + (d - 1) - 1 = d - 1
        BY <2>3, <3>1, <3>2
      <4>2. SubSeq(a, i + 1, d - 1) = SubSeq(t, 1 + (i + 1) - 1, 1 + (d - 1) - 1)
        BY <3>2, <4>1, SubSeqOfSubSeq
      <4> QED BY <4>1, <4>2
    <3>5. SubSeq(t, i + 1, d - 1) # << >>
      <4>1. i + 1 \in Nat /\ i + 1 >= 1 /\ i + 1 <= d - 1 /\ (d - 1) - (i + 1) + 1 # 0
        BY <2>3, <3>1
      <4>2. Len(SubSeq(t, i + 1, d - 1)) = (d - 1) - (i + 1) + 1 BY <2>3, <4>1, PartOfText
      <4> QED BY <4>1, <4>2, EmptySeq
    <3>6. IsDigits(SubSeq(t, i + 1, d - 1)) BY <3>1, <3>4, DigitsAreChars
    <3>7. Number(SubSeq(t, 1, i), SubSeq(t, i + 1, d - 1), <<Dot>>, frac)
      BY <2>6, <3>1, <3>3, <3>5, <3>6 DEF Number, Signs
    <3>8. /\ i \in 0 .. 1 /\ d - 1 \in 0 .. n /\ d \in 0 .. n
          /\ i <= d - 1 /\ d - 1 <= d /\ d <= d - 1 + 1
      BY <1>1, <2>3, <3>1
    <3>9. IsCut(t, i, d - 1, d) BY <2>7, <2>8, <3>7, <3>8 DEF IsCut
    <3> QED BY <3>9
  <2>10. CASE ~(d > 1)
    <3>1. d = 1 /\ d - 1 = 0 BY <2>3, <2>10
    <3>2. SubSeq(t, 1, 0) = << >> /\ SubSeq(t, 0 + 1, d - 1) = << >> BY <3>1, SubSeqEmpty
    <3>3. frac # << >>
      <4> SUFFICES ASSUME frac = << >> PROVE FALSE
        OBVIOUS
      <4>1. n = 1 BY <2>5, <3>1
      <4>2. t = SubSeq(t, d, d) BY <3>1, <4>1, SubSeqFull
      <4> QED BY <2>2, <2>7, <4>2
    <3>4. IsDigits(<< >>)
      <4>1. << >> \in Seq(Digits) BY EmptySeq
      <4> QED BY <4>1, DigitsAreChars
    <3>5. Number(<< >>, << >>, <<Dot>>, frac) BY <2>6, <3>3, <3>4 DEF Number
    <3>6. /\ 0 \in 0 .. 1 /\ d - 1 \in 0 .. n /\ d \in 0 .. n
          /\ 0 <= d - 1 /\ d - 1 <= d /\ d <= d - 1 + 1
      BY <1>1, <2>3
    <3>7. IsCut(t, 0, d - 1, d) BY <2>7, <2>8, <3>2, <3>5, <3>6 DEF IsCut
    <3> QED BY <3>7
  <2> QED BY <2>9, <2>10
<1> QED BY <1>2, <1>3

\* The meaning of a text, by one of its cuts.
LEMMA MeaningOfCuts ==
    ASSUME NEW t \in Seq(Char)
    PROVE  \/ Meaning(t) = Thrown /\ ~\E i, j, k : IsCut(t, i, j, k)
           \/ \E i, j, k :
                 LET weight == Weight(SubSeq(t, i + 1, j), SubSeq(t, k + 1, Len(t)))
                 IN  IsCut(t, i, j, k) /\ Meaning(t) = ExactOrThrow(Signed(SubSeq(t, 1, i), weight))
<1> DEFINE Cuts == {c \in (0 .. 1) \X (0 .. Len(t)) \X (0 .. Len(t)) :
                      /\ c[1] <= c[2] /\ c[2] <= c[3] /\ c[3] <= c[2] + 1
                      /\ LET p == Split(t, c[1], c[2], c[3]) IN Number(p[1], p[2], p[3], p[4])}
           value(c) == LET p == Split(t, c[1], c[2], c[3])
                       IN  IF p[1] = << >> THEN Weight(p[2], p[4]) ELSE -Weight(p[2], p[4])
           weight(i, j, k) == Weight(SubSeq(t, i + 1, j), SubSeq(t, k + 1, Len(t)))
<1>1. Meaning(t) = IF Cuts = {} THEN Thrown ELSE ExactOrThrow(value(CHOOSE c \in Cuts : TRUE))
  BY DEF Meaning
<1>2. \A c \in Cuts : IsCut(t, c[1], c[2], c[3])
  BY DEF IsCut, Split
<1>3. \A i, j, k : IsCut(t, i, j, k) => <<i, j, k>> \in Cuts
  BY DEF IsCut, Split
<1>4. \A c : value(c) = Signed(SubSeq(t, 1, c[1]), weight(c[1], c[2], c[3]))
  BY DEF Signed, Split
<1> HIDE DEF Cuts, value, weight
<1>5. CASE Cuts = {} BY <1>1, <1>3, <1>5
<1>6. CASE Cuts # {}
  <2>1. PICK c \in Cuts : Meaning(t) = ExactOrThrow(value(c)) BY <1>1, <1>6
  <2>2. IsCut(t, c[1], c[2], c[3]) BY <1>2, <2>1
  <2>3. Meaning(t) = ExactOrThrow(Signed(SubSeq(t, 1, c[1]), weight(c[1], c[2], c[3])))
    BY <1>4, <2>1
  <2> QED BY <2>2, <2>3 DEF weight
<1> QED BY <1>5, <1>6

\* Every text is read as what it means, or refused.
LEMMA ReadingIsExact ==
    ASSUME NEW t \in Seq(Char)
    PROVE  parseDecimal(t) = Meaning(t)
<1>1. CASE Meaning(t) = Thrown /\ ~\E i, j, k : IsCut(t, i, j, k)
  BY <1>1, ReadIsNumber
<1>2. CASE \E i, j, k :
              LET weight == Weight(SubSeq(t, i + 1, j), SubSeq(t, k + 1, Len(t)))
              IN  IsCut(t, i, j, k) /\ Meaning(t) = ExactOrThrow(Signed(SubSeq(t, 1, i), weight))
  BY <1>2, NumberIsRead
<1> QED BY <1>1, <1>2, MeaningOfCuts

LEMMA TextsAreRows == Spec => [](text \in Seq(Char))
<1>1. Init => text \in Seq(Char)
  BY EmptySeq DEF Init
<1>2. text \in Seq(Char) /\ [Next]_vars => (text \in Seq(Char))'
  BY AppendProperties DEF Next, Arrives, vars
<1> QED BY <1>1, <1>2, PTL DEF Spec

\* Whatever the text, of any length, and whatever the width of a word and the number
\* of places: it is read as the number it means, to the last place and to the last
\* word at both ends, and refused when it means none (decimal.hpp:53-78).
THEOREM ReadingExactly == Spec => []ParseIsExact
<1>1. text \in Seq(Char) => ParseIsExact
  BY ReadingIsExact DEF ParseIsExact
<1> QED BY <1>1, TextsAreRows, PTL

-----------------------------------------------------------------------------
(* What is printed reads back.                                             *)

LEMMA Remainder == \A n, b \in Int : b > 0 => n % b = n - b * (n \div b)
BY SMTT(60)

\* Division with a remainder.
LEMMA Division ==
    ASSUME NEW n \in Nat, NEW b \in Nat, b > 0
    PROVE  \E q, r \in Nat : q = n \div b /\ r = n % b /\ r < b /\ n = q * b + r
<1>1. n \div b \in Nat BY QuotientBounds
<1>2. n % b \in Nat /\ n % b < b BY SMTT(20)
<1>3. PICK q \in Nat : q = n \div b BY <1>1
<1>4. n % b = n - b * q BY <1>3, Remainder
<1>5. b * q = q * b BY Products
<1>6. PICK p \in Nat : p = q * b BY Products
<1>7. PICK r \in Nat : r = n % b /\ r < b BY <1>2
<1>8. n = p + r BY <1>4, <1>5, <1>6, <1>7
<1>9. n = q * b + r BY <1>6, <1>8
<1> QED BY <1>3, <1>7, <1>9

LEMMA QuotientIsUnique ==
    ASSUME NEW n \in Nat, NEW m \in Nat, NEW q \in Nat, m > 0, m * q <= n, n < m * (q + 1)
    PROVE  n \div m = q
<1>1. PICK r \in Nat : r = n \div m /\ m * r <= n /\ n < m * (r + 1) BY QuotientBounds
<1>2. \A a, b \in Nat : a <= b => m * a <= m * b
  <2> SUFFICES ASSUME NEW a \in Nat, NEW b \in Nat, a <= b PROVE m * a <= m * b
    OBVIOUS
  <2>1. a * m <= b * m BY ProductsGrow
  <2> QED BY <2>1, Products
<1>3. PICK mq \in Nat : mq = m * q BY Products
<1>4. PICK mr \in Nat : mr = m * r BY Products
<1>5. PICK mq1 \in Nat : mq1 = m * (q + 1) BY Products
<1>6. PICK mr1 \in Nat : mr1 = m * (r + 1) BY Products
<1>7. ~(q + 1 <= r)
  <2> SUFFICES ASSUME q + 1 <= r PROVE FALSE
    OBVIOUS
  <2>1. mq1 <= mr BY <1>2, <1>4, <1>5
  <2> QED BY <1>1, <1>4, <1>5, <2>1
<1>8. ~(r + 1 <= q)
  <2> SUFFICES ASSUME r + 1 <= q PROVE FALSE
    OBVIOUS
  <2>1. mr1 <= mq BY <1>2, <1>3, <1>6
  <2> QED BY <1>1, <1>3, <1>6, <2>1
<1>9. r = q BY <1>7, <1>8
<1> QED BY <1>1, <1>9

\* Dividing twice is dividing by the product.
LEMMA DivideTwice ==
    ASSUME NEW n \in Nat, NEW p \in Nat, NEW b \in Nat, p > 0, b > 0,
           NEW m \in Nat, m = b * p, NEW a \in Nat, a = n \div p
    PROVE  n \div m = a \div b
<1>1. p * a <= n /\ n < p * (a + 1) BY QuotientBounds
<1>2. PICK q \in Nat : q = a \div b /\ b * q <= a /\ a < b * (q + 1) BY QuotientBounds
<1>3. m > 0
  <2>1. 1 <= b OBVIOUS
  <2>2. 1 * p <= b * p BY <2>1, ProductsGrow
  <2>3. 1 * p = p BY Products
  <2>4. p <= m BY <2>2, <2>3
  <2> QED BY <2>4
<1>4. m * q <= n
  <2>1. PICK x \in Nat : x = b * q BY Products
  <2>2. x * p <= a * p BY <1>2, <2>1, ProductsGrow
  <2>3. m * q = x * p
    <3>1. (b * p) * q = b * (p * q) BY Products
    <3>2. p * q = q * p BY Products
    <3>3. b * (q * p) = (b * q) * p BY Products
    <3> QED BY <1>3, <2>1, <3>1, <3>2, <3>3
  <2>4. a * p = p * a BY Products
  <2>5. PICK y \in Nat : y = p * a BY Products
  <2>6. PICK z \in Nat : z = x * p BY Products
  <2> QED BY <1>1, <2>2, <2>3, <2>4, <2>5, <2>6
<1>5. n < m * (q + 1)
  <2>1. PICK x \in Nat : x = b * (q + 1) BY Products
  <2>2. a + 1 <= x BY <1>2, <2>1
  <2>3. (a + 1) * p <= x * p BY <2>2, ProductsGrow
  <2>4. m * (q + 1) = x * p
    <3>1. (b * p) * (q + 1) = b * (p * (q + 1)) BY Products
    <3>2. p * (q + 1) = (q + 1) * p BY Products
    <3>3. b * ((q + 1) * p) = (b * (q + 1)) * p BY Products
    <3> QED BY <1>3, <2>1, <3>1, <3>2, <3>3
  <2>5. (a + 1) * p = p * (a + 1) BY Products
  <2>6. PICK y \in Nat : y = p * (a + 1) BY Products
  <2>7. PICK z \in Nat : z = x * p BY Products
  <2> QED BY <1>1, <2>3, <2>4, <2>5, <2>6, <2>7
<1>6. n \div m = q BY <1>3, <1>4, <1>5, QuotientIsUnique
<1> QED BY <1>2, <1>6

LEMMA PowersArePositive ==
    ASSUME NEW n \in Nat
    PROVE  Power[n] \in Nat /\ Power[n] > 0
<1>1. PICK p \in Nat : p = Power[n] /\ p > n BY PowerGrows
<1>2. p > 0 BY <1>1
<1> QED BY <1>1, <1>2

\* The last digits of a number that has no more are those of its value.
LEMMA DigitsOfNumber ==
    ASSUME NEW n \in Nat, NEW c \in Nat, n < Power[c]
    PROVE  /\ LastDigits(n, c) \in Seq(Digits) /\ Len(LastDigits(n, c)) = c
           /\ DigitsValue(LastDigits(n, c)) = n
<1> DEFINE t == LastDigits(n, c)
<1>0. Base \in Nat /\ Base > 0 BY BaseFacts
<1>1. ASSUME NEW i \in 1 .. c
      PROVE  c - i \in Nat /\ n \div Power[c - i] \in Nat /\ (n \div Power[c - i]) % Base \in Digits
  <2>1. c - i \in Nat OBVIOUS
  <2>2. Power[c - i] \in Nat /\ Power[c - i] > 0 BY <2>1, PowersArePositive
  <2>3. PICK a \in Nat : a = n \div Power[c - i] BY <2>2, QuotientBounds
  <2>4. PICK m \in Nat : m = a % Base /\ m < Base BY <1>0, Division
  <2>5. m \in 0 .. Base - 1 BY <1>0, <2>4
  <2> QED BY <2>1, <2>3, <2>4, <2>5, DigitType
<1>2. /\ t \in [1 .. c -> Digits]
      /\ \A i \in 1 .. c : t[i] = (n \div Power[c - i]) % Base
  BY <1>1 DEF LastDigits
<1> HIDE DEF t
<1>3. t \in Seq(Digits) BY <1>2, SeqDef
<1>4. Len(t) = c BY <1>2, <1>3, LenProperties
<1>5. PICK h : Reads(h, t) /\ DigitsValue(t) = h[Len(t)] BY <1>3, DigitsUnfold
<1>6. /\ h[0] = 0 /\ \A i \in 1 .. c : h[i] = h[i - 1] * Base + t[i]
      /\ DigitsValue(t) = h[c]
  BY <1>4, <1>5 DEF Reads
<1> DEFINE T == {i \in 0 .. c : h[i] = n \div Power[c - i]}
<1>7. 0 \in T
  <2>1. PICK p \in Nat : p = Power[c] /\ p > 0 BY PowersArePositive
  <2>2. p * 0 = 0 /\ p * (0 + 1) = p BY Products
  <2>3. n \div p = 0 BY <2>1, <2>2, QuotientIsUnique
  <2>4. c - 0 = c /\ 0 \in 0 .. c OBVIOUS
  <2> QED BY <1>6, <2>1, <2>3, <2>4
<1>8. ASSUME NEW m \in 0 .. c, m \in T, m < c PROVE m + 1 \in T
  <2>1. /\ m + 1 \in 1 .. c /\ m + 1 \in 0 .. c /\ (m + 1) - 1 = m
        /\ c - m = (c - (m + 1)) + 1
    BY <1>8
  <2>2. PICK k \in Nat : k = c - (m + 1) BY <1>8
  <2>3. PICK p \in Nat : p = Power[k] /\ p > 0 BY PowersArePositive
  <2>4. PICK b \in Nat : b = Base /\ b > 0 BY <1>0
  <2>5. PICK x \in Nat : x = b * p /\ x = Power[c - m]
    <3>1. Power[c - m] = b * p BY <2>1, <2>2, <2>3, <2>4, PowerUnfolds
    <3> QED BY <3>1, Products
  <2>6. PICK a \in Nat : a = n \div p BY <2>3, QuotientBounds
  <2>7. PICK q, r \in Nat : q = a \div b /\ r = a % b /\ a = q * b + r BY <2>4, Division
  <2>8. h[m] = q
    <3>1. h[m] = n \div x BY <1>8, <2>5
    <3>2. n \div x = a \div b BY <2>3, <2>4, <2>5, <2>6, DivideTwice
    <3> QED BY <2>7, <3>1, <3>2
  <2>9. t[m + 1] = r BY <1>2, <2>1, <2>2, <2>3, <2>4, <2>6, <2>7
  <2>10. h[m + 1] = a BY <1>6, <2>1, <2>4, <2>7, <2>8, <2>9
  <2> QED BY <2>1, <2>2, <2>3, <2>6, <2>10
<1>9. 0 .. c \subseteq T
  <2> HIDE DEF T
  <2> QED BY <1>7, <1>8, InductionUpTo
<1>10. h[c] = n
  <2>1. c \in 0 .. c /\ c - c = 0 OBVIOUS
  <2>2. h[c] = n \div Power[0] BY <1>9, <2>1
  <2>3. 1 * n = n /\ 1 * (n + 1) = n + 1 BY Products
  <2>4. n \div 1 = n BY <2>3, QuotientIsUnique
  <2> QED BY <2>2, <2>4, PowerUnfolds
<1> QED BY <1>3, <1>4, <1>6, <1>10 DEF t

\* A natural number is printed with as many digits as it has.
LEMMA PrintedNumber ==
    ASSUME NEW n \in Nat
    PROVE  /\ toString(n) \in Seq(Digits) /\ toString(n) # << >>
           /\ DigitsValue(toString(n)) = n
<1> DEFINE Fits == {k \in Nat : k >= 1 /\ n < Power[k]}
           Right(k) == n < Power[k] /\ (k > 1 => n >= Power[k - 1])
<1>1. n + 1 \in Fits
  <2>1. n + 1 \in Nat /\ n + 1 >= 1 OBVIOUS
  <2>2. PICK p \in Nat : p = Power[n + 1] /\ p > n + 1 BY <2>1, PowerGrows
  <2>3. n < p BY <2>2
  <2> QED BY <2>1, <2>2, <2>3
<1>2. PICK k \in Fits : \A j \in Fits : k =< j
  <2>1. Fits \subseteq Nat /\ Fits # {} BY <1>1
  <2> HIDE DEF Fits
  <2> QED BY <2>1, LeastOfNaturals
<1>3. k \in 1 .. n + 1 BY <1>1, <1>2
<1>4. Right(k)
  <2>1. n < Power[k] BY <1>2
  <2>2. ASSUME k > 1 PROVE n >= Power[k - 1]
    <3>1. k - 1 \in Nat /\ k - 1 >= 1 BY <1>3, <2>2
    <3>2. k - 1 \notin Fits
      <4> HIDE DEF Fits
      <4>1. k - 1 \in Fits => k =< k - 1 BY <1>2
      <4>2. ~(k =< k - 1) BY <1>3
      <4> QED BY <4>1, <4>2
    <3>3. PICK p \in Nat : p = Power[k - 1] BY <3>1, PowerUnfolds
    <3>4. ~(n < p) BY <3>1, <3>2, <3>3
    <3> QED BY <3>3, <3>4
  <2> QED BY <2>1, <2>2
<1> DEFINE c == CHOOSE j \in 1 .. n + 1 : Right(j)
<1>5. c \in 1 .. n + 1 /\ Right(c)
  <2> HIDE DEF Right
  <2> QED BY <1>3, <1>4
<1>6. toString(n) = LastDigits(n, c) BY DEF toString
<1>7. c \in Nat /\ c >= 1 /\ n < Power[c] BY <1>5
<1> HIDE DEF c
<1>8. /\ LastDigits(n, c) \in Seq(Digits) /\ Len(LastDigits(n, c)) = c
      /\ DigitsValue(LastDigits(n, c)) = n
  BY <1>7, DigitsOfNumber
<1>9. LastDigits(n, c) # << >> BY <1>7, <1>8, EmptySeq
<1> QED BY <1>6, <1>8, <1>9

LEMMA ZerosAreNothing ==
    ASSUME NEW t \in Seq(Digits), \A i \in 1 .. Len(t) : t[i] = 0
    PROVE  DigitsValue(t) = 0
<1> DEFINE n == Len(t)
<1>0. n \in Nat BY LenProperties
<1>1. PICK h : Reads(h, t) /\ DigitsValue(t) = h[n] BY DigitsUnfold
<1>2. h[0] = 0 /\ \A i \in 1 .. n : h[i] = h[i - 1] * Base + t[i] BY <1>1 DEF Reads
<1> DEFINE T == {i \in 0 .. n : h[i] = 0}
<1>3. 0 \in T BY <1>0, <1>2
<1>4. ASSUME NEW m \in 0 .. n, m \in T, m < n PROVE m + 1 \in T
  <2>1. m + 1 \in 1 .. n /\ m + 1 \in 0 .. n /\ (m + 1) - 1 = m BY <1>0, <1>4
  <2>2. h[m + 1] = h[m] * Base + t[m + 1] BY <1>2, <2>1
  <2>3. 0 * Base = 0 /\ t[m + 1] = 0 BY <2>1, BaseFacts, Products
  <2>4. h[m + 1] = 0 BY <1>4, <2>2, <2>3
  <2> QED BY <2>1, <2>4
<1>5. 0 .. n \subseteq T
  <2> HIDE DEF T, n
  <2> QED BY <1>0, <1>3, <1>4, InductionUpTo
<1>6. n \in 0 .. n BY <1>0
<1> QED BY <1>1, <1>5, <1>6

\* Without the zeros at its end a row is worth as much, at higher places.
LEMMA TrimmedRow ==
    ASSUME NEW t \in Seq(Digits)
    PROVE  /\ Trimmed(t) \in Seq(Digits) /\ Len(Trimmed(t)) <= Len(t)
           /\ DigitsValue(t) = DigitsValue(Trimmed(t)) * Power[Len(t) - Len(Trimmed(t))]
<1> DEFINE n == Len(t)
           I == {i \in 1 .. n : t[i] # 0}
           k == SelectLastInSeq(t, LAMBDA d : d # 0)
           head == SubSeq(t, 1, k)
           zeros == SubSeq(t, k + 1, n)
<1>0. n \in Nat /\ \A i \in 1 .. n : t[i] \in Digits BY LenProperties, ElementOfSeq
<1>1. k = IF I # {} THEN Max(I) ELSE 0 BY DEF SelectLastInSeq
<1>2. k \in 0 .. n /\ \A i \in k + 1 .. n : t[i] = 0
  <2>1. CASE I = {} BY <1>0, <1>1, <2>1
  <2>2. CASE I # {}
    <3>1. I \subseteq 1 .. n OBVIOUS
    <3>2. Max(I) \in I /\ \A i \in I : i <= Max(I)
      <4> HIDE DEF I, n
      <4> QED BY <1>0, <2>2, <3>1, MaxOfInterval
    <3>3. PICK m \in I : m = Max(I) BY <3>2
    <3>4. k = m BY <1>1, <2>2, <3>3
    <3> HIDE DEF k
    <3>5. m \in 1 .. n /\ \A i \in I : i <= m BY <3>2, <3>3
    <3>6. ASSUME NEW i \in m + 1 .. n PROVE t[i] = 0
      <4>1. i \in 1 .. n /\ ~(i <= m) BY <1>0, <3>5
      <4>2. i \notin I BY <3>5, <4>1
      <4> QED BY <4>1, <4>2
    <3> QED BY <1>0, <3>4, <3>5, <3>6
  <2> QED BY <2>1, <2>2
<1>3. Trimmed(t) = head BY DEF Trimmed
<1> HIDE DEF k, I, n
<1>4. head \in Seq(Digits) /\ Len(head) = k
  <2>1. \A i \in 1 .. k : t[i] \in Digits BY <1>0, <1>2
  <2>2. /\ SubSeq(t, 1, k) \in Seq(Digits)
        /\ Len(SubSeq(t, 1, k)) = IF 1 <= k THEN k - 1 + 1 ELSE 0
    BY <1>0, <1>2, <2>1, SubSeqProperties
  <2>3. (1 <= k => k - 1 + 1 = k) /\ (~(1 <= k) => k = 0) BY <1>0, <1>2
  <2> QED BY <2>2, <2>3
<1>5. zeros \in Seq(Digits) /\ Len(zeros) = n - k /\ \A i \in 1 .. n - k : zeros[i] = 0
  <2>1. \A i \in k + 1 .. n : t[i] \in Digits BY <1>0, <1>2
  <2>2. k + 1 \in Int /\ n \in Int BY <1>0, <1>2
  <2>3. /\ SubSeq(t, k + 1, n) \in Seq(Digits)
        /\ Len(SubSeq(t, k + 1, n)) = IF k + 1 <= n THEN n - (k + 1) + 1 ELSE 0
        /\ \A i \in 1 .. n - (k + 1) + 1 : SubSeq(t, k + 1, n)[i] = t[(k + 1) + i - 1]
    BY <2>1, <2>2, SubSeqProperties
  <2>4. n - (k + 1) + 1 = n - k /\ (~(k + 1 <= n) => n - k = 0) BY <1>0, <1>2
  <2>5. ASSUME NEW i \in 1 .. n - k PROVE t[(k + 1) + i - 1] = 0
    <3>1. (k + 1) + i - 1 \in k + 1 .. n BY <1>0, <1>2
    <3> QED BY <1>2, <3>1
  <2> QED BY <2>3, <2>4, <2>5
<1>6. t = head \o zeros
  <2>1. 1 \in 1 .. Len(t) + 1 /\ k \in 1 - 1 .. Len(t) /\ n \in k .. Len(t) BY <1>0, <1>2 DEF n
  <2>2. head \o zeros = SubSeq(t, 1, n) BY <2>1, ConcatAdjacentSubSeq
  <2>3. SubSeq(t, 1, n) = t BY SubSeqFull DEF n
  <2> QED BY <2>2, <2>3
<1> HIDE DEF head, zeros
<1>7. n - k \in Nat BY <1>0, <1>2
<1>8. DigitsValue(head \o zeros) = DigitsValue(head) * Power[n - k] + DigitsValue(zeros)
  BY <1>4, <1>5, <1>7, DigitsConcatenated
<1>9. DigitsValue(zeros) = 0 BY <1>5, ZerosAreNothing
<1>10. PICK x \in Nat : x = DigitsValue(head) * Power[n - k]
  <2>1. DigitsValue(head) \in Nat /\ Power[n - k] \in Nat
    BY <1>4, <1>7, DigitsAreNatural, PowerUnfolds
  <2> QED BY <2>1, Products
<1>11. DigitsValue(t) = x BY <1>6, <1>8, <1>9, <1>10
<1>12. k <= n BY <1>0, <1>2
<1> QED BY <1>3, <1>4, <1>10, <1>11, <1>12 DEF n

\* What is printed is a number, and reads as the one printed.
LEMMA PrintingReadsBack ==
    ASSUME NEW scaled \in Word
    PROVE  parseDecimal(formatScaled(scaled)) = scaled
<1>1. PICK a \in Nat : a = Abs(scaled) /\ (scaled < 0 => scaled = -a) /\ (~(scaled < 0) => scaled = a)
  <2>1. scaled \in Int BY WordsAreIntegers
  <2>2. Abs(scaled) \in Nat BY <2>1 DEF Abs
  <2> QED BY <2>1, <2>2 DEF Abs
<1>2. PICK s \in Nat : s = SCALE /\ s > 0 /\ s = Power[Places] BY ScaleFacts
<1>3. PICK q, r \in Nat : q = a \div s /\ r = a % s /\ r < s /\ a = q * s + r
  BY <1>2, Division
<1> DEFINE sign == IF scaled < 0 THEN <<Minus>> ELSE << >>
           int == toString(q)
           frac == IF r = 0 THEN << >> ELSE Trimmed(LastDigits(r, Places))
<1>4. sign \in Signs /\ Signed(sign, a) = scaled
  <2>1. <<Minus>> # << >> OBVIOUS
  <2> QED BY <1>1, <2>1 DEF Signs, Signed
<1>5. formatScaled(scaled) = sign \o int \o Fraction(r)
  BY <1>1, <1>2, <1>3 DEF formatScaled
<1>6. int \in Seq(Digits) /\ int # << >> /\ DigitsValue(int) = q BY PrintedNumber
<1>7. /\ frac \in Seq(Digits) /\ Len(frac) <= Places
      /\ DigitsValue(frac) * Power[Places - Len(frac)] = r
  <2>1. CASE r = 0
    <3>1. frac = << >> BY <2>1
    <3>2. Places - Len(<< >>) \in Nat
      <4>1. Len(<< >>) = 0 BY EmptySeq
      <4> QED BY <4>1, BaseFacts
    <3>3. PICK p \in Nat : p = Power[Places - Len(<< >>)] BY <3>2, PowerUnfolds
    <3>4. DigitsValue(<< >>) = 0 /\ 0 * p = 0 BY DigitsProperties, Products
    <3> HIDE DEF frac
    <3> QED BY <2>1, <3>1, <3>3, <3>4, EmptyRow
  <2>2. CASE r # 0
    <3> DEFINE t == LastDigits(r, Places)
    <3>1. t \in Seq(Digits) /\ Len(t) = Places /\ DigitsValue(t) = r
      BY <1>2, <1>3, BaseFacts, DigitsOfNumber
    <3>2. frac = Trimmed(t) BY <2>2
    <3> HIDE DEF t, frac
    <3>3. /\ Trimmed(t) \in Seq(Digits) /\ Len(Trimmed(t)) <= Len(t)
          /\ DigitsValue(t) = DigitsValue(Trimmed(t)) * Power[Len(t) - Len(Trimmed(t))]
      BY <3>1, TrimmedRow
    <3> QED BY <3>1, <3>2, <3>3
  <2> QED BY <2>1, <2>2
<1>8. int \in Seq(Char) /\ sign \in Seq(Char) /\ sign \o int \in Seq(Char)
  BY <1>4, <1>6, SignsAndPoints, DigitsAreChars, ConcatProperties
<1>9. ExactOrThrow(Signed(sign, q * s + r)) = scaled
  BY <1>3, <1>4, WordOrThrown
<1> HIDE DEF sign, int
<1>10. CASE r = 0
  <2>1. Fraction(r) = << >> BY <1>10 DEF Fraction
  <2>2. formatScaled(scaled) = sign \o int BY <1>5, <1>8, <2>1, ConcatEmptySeq
  <2>3. parseDecimal(sign \o int) = ExactOrThrow(Signed(sign, q * s))
    BY <1>2, <1>4, <1>6, IntegerIsRead
  <2>4. q * s + r = q * s
    <3>1. PICK x \in Nat : x = q * s BY Products
    <3> QED BY <1>10, <3>1
  <2> QED BY <1>9, <2>2, <2>3, <2>4
<1>11. CASE r # 0
  <2>1. Fraction(r) = <<Dot>> \o frac BY <1>11 DEF Fraction
  <2> HIDE DEF frac
  <2>2. formatScaled(scaled) = (sign \o int) \o (<<Dot>> \o frac) BY <1>5, <2>1
  <2>3. parseDecimal((sign \o int) \o (<<Dot>> \o frac))
          = ExactOrThrow(Signed(sign, DigitsValue(int) * SCALE
                                        + DigitsValue(frac) * Power[Places - Len(frac)]))
    BY <1>4, <1>6, <1>7, DecimalIsRead
  <2> QED BY <1>2, <1>6, <1>7, <1>9, <2>2, <2>3
<1> QED BY <1>10, <1>11

\* Whatever the word, the smallest included: what subscribers are sent reads as the
\* number in the book (subscriber_protocol.hpp:84-107).
THEOREM PrintingExactly == Spec => []FormatReadsBack
<1>1. Operands => FormatReadsBack
  BY PrintingReadsBack DEF Operands, FormatReadsBack
<1> QED BY <1>1, OperandsAreWords, PTL
=============================================================================
