------------------------------ MODULE Arithmetic ------------------------------
(***************************************************************************)
(* Arithmetic on long long that must not overflow: the saturating operators *)
(* of src/src/utils/checked_arith.hpp and the throwing ones of              *)
(* src/src/safe_arithmetic.hpp.  A word is a two's complement integer; what *)
(* the C++ code computes on the way has to be one too.                     *)
(***************************************************************************)
EXTENDS Integers

CONSTANT WordMax                \* LLONG_MAX

ASSUME WordAssumption == WordMax \in Nat \ {0}

WordMin == -WordMax - 1         \* LLONG_MIN
Word    == WordMin .. WordMax

\* In the place of a result: the function threw.
Thrown == WordMax + 1

-----------------------------------------------------------------------------
(* Saturating.                                                             *)

\* Mutant: the test itself overflows for the smallest word.
checkedSubtractByNegation(a, b) ==
    IF b < 0 /\ b # WordMin /\ a > WordMax + b THEN WordMax
    ELSE IF b > 0 /\ a < WordMin + b THEN WordMin
    ELSE a - b

checkedAdd(a, b) ==
    IF b > 0 /\ a > WordMax - b THEN WordMax
    ELSE IF b < 0 /\ a < WordMin - b THEN WordMin
    ELSE a + b

checkedSubtract(a, b) ==
    IF b < 0 /\ a > WordMax + b THEN WordMax
    ELSE IF b > 0 /\ a < WordMin + b THEN WordMin
    ELSE a - b

\* In 128 bits.
checkedMultiply(a, b) ==
    LET result == a * b
    IN  IF result > WordMax THEN WordMax ELSE IF result < WordMin THEN WordMin ELSE result

-----------------------------------------------------------------------------
(* Throwing.                                                               *)

Abs(a) == IF a < 0 THEN -a ELSE a

\* C++ division truncates.
Quotient(a, b) ==
    IF (a < 0) = (b < 0) THEN Abs(a) \div Abs(b) ELSE -(Abs(a) \div Abs(b))

\* Mutant: a division that rounds down.
MultiplyOverflowsFloor(a, b) ==
    \/ a > 0 /\ b > 0 /\ a > WordMax \div b
    \/ a < 0 /\ b < 0 /\ a < -(WordMax \div (-b)) - 1
    \/ a > 0 /\ b < 0 /\ b < -((-WordMin) \div a)
    \/ a < 0 /\ b > 0 /\ a < -((-WordMin) \div b)

MultiplyOverflows(a, b) ==
    \/ a > 0 /\ b > 0 /\ a > Quotient(WordMax, b)
    \/ a < 0 /\ b < 0 /\ a < Quotient(WordMax, b)
    \/ a > 0 /\ b < 0 /\ b < Quotient(WordMin, a)
    \/ a < 0 /\ b > 0 /\ a < Quotient(WordMin, b)

safeMultiply(a, b) == IF MultiplyOverflows(a, b) THEN Thrown ELSE a * b

safeAdd(a, b) ==
    IF (b > 0 /\ a > WordMax - b) \/ (b < 0 /\ a < WordMin - b) THEN Thrown ELSE a + b

safeSubstract(a, b) ==
    IF (b < 0 /\ a > WordMax + b) \/ (b > 0 /\ a < WordMin + b) THEN Thrown ELSE a - b

-----------------------------------------------------------------------------
Clamp(n)        == IF n > WordMax THEN WordMax ELSE IF n < WordMin THEN WordMin ELSE n
ExactOrThrow(n) == IF n \in Word THEN n ELSE Thrown
=============================================================================
