-------------------------------- MODULE Decimal --------------------------------
(***************************************************************************)
(* Prices and quantities between text and fixed point: parseDecimal         *)
(* (src/src/decimal.hpp), through which every level of both exchanges comes *)
(* in, and formatScaled (src/src/subscriber_protocol.hpp), through which it *)
(* goes out to subscribers.  A text is a sequence of characters, and a      *)
(* character is a digit or one of the three below.                         *)
(***************************************************************************)
EXTENDS Arithmetic, SequencesExt

CONSTANTS
    Base,           \* 10
    Places          \* 8, the fractional digits

\* The powers of the base, which the code has in tables.
Power[n \in Nat] == IF n = 0 THEN 1 ELSE Base * Power[n - 1]

ASSUME DecimalAssumption ==
    /\ Base \in Nat \ {0, 1} /\ Places \in Nat
    /\ Power[Places] <= WordMax

Digits == 0 .. Base - 1
Minus  == Base
Dot    == Base + 1
Other  == Base + 2          \* any character without a meaning
Char   == Digits \cup {Minus, Dot, Other}

SCALE == Power[Places]

IsDigits(t)    == \A i \in DOMAIN t : t[i] \in Digits
DigitsValue(t) == FoldLeft(LAMBDA n, d : n * Base + d, 0, t)

\* std::from_chars into a long long, which has to use up the text.
fromChars(t) ==
    LET negative == t # << >> /\ t[1] = Minus
        digits   == IF negative THEN Tail(t) ELSE t
        value    == IF negative THEN -DigitsValue(digits) ELSE DigitsValue(digits)
    IN  IF digits # << >> /\ IsDigits(digits) /\ value \in Word THEN value ELSE Thrown

\* Mutant: pads one place too few.
parseFractionalPartShort(frac) ==
    IF frac = << >> THEN 0
    ELSE IF Len(frac) > Places \/ ~IsDigits(frac) THEN Thrown
    ELSE DigitsValue(frac) * Power[Places - 1]

parseFractionalPart(frac) ==
    IF frac = << >> THEN 0
    ELSE IF Len(frac) > Places \/ ~IsDigits(frac) THEN Thrown
    ELSE DigitsValue(frac) * Power[Places - Len(frac)]

FirstDot(t) == SelectInSeq(t, LAMBDA c : c = Dot)

\* An exception in one of the steps leaves by the nearest handler.
ParseInteger(t) == LET value == fromChars(t)
                   IN  IF value = Thrown THEN Thrown ELSE safeMultiply(value, SCALE)

ParseWithDot(t, dot) ==
    LET negative == t[1] = Minus
        intPart  == IF dot > 1 THEN fromChars(SubSeq(t, 1, dot - 1)) ELSE 0
        fracPart == parseFractionalPart(SubSeq(t, dot + 1, Len(t)))
        scaled   == safeMultiply(intPart, SCALE)
    IN  IF Thrown \in {intPart, fracPart} \/ t = <<Dot>> THEN Thrown
        ELSE IF scaled = Thrown THEN Thrown
        ELSE IF negative THEN safeSubstract(scaled, fracPart) ELSE safeAdd(scaled, fracPart)

parseDecimal(t) == IF FirstDot(t) = 0 THEN ParseInteger(t) ELSE ParseWithDot(t, FirstDot(t))

-----------------------------------------------------------------------------
(* formatScaled.  The absolute value is taken in unsigned arithmetic.       *)

\* std::to_string, with the zeros the caller puts before it.
LastDigits(n, count) == [i \in 1 .. count |-> (n \div Power[count - i]) % Base]
toString(n) == LastDigits(n, CHOOSE k \in 1 .. n + 1 :
                                 n < Power[k] /\ (k > 1 => n >= Power[k - 1]))

Trimmed(t) == SubSeq(t, 1, SelectLastInSeq(t, LAMBDA d : d # 0))

\* Mutant: forgets to pad the fraction with zeros.
FractionUnpadded(n) == IF n = 0 THEN << >> ELSE <<Dot>> \o Trimmed(toString(n))

Fraction(n) == IF n = 0 THEN << >> ELSE <<Dot>> \o Trimmed(LastDigits(n, Places))

formatScaled(scaled) ==
    (IF scaled < 0 THEN <<Minus>> ELSE << >>)
        \o toString(Abs(scaled) \div SCALE) \o Fraction(Abs(scaled) % SCALE)

-----------------------------------------------------------------------------
\* A number: a sign perhaps, digits, a point perhaps, and not too many digits more.
\* A point may stand first or last, but not alone and not behind a sign.
Number(sign, int, point, frac) ==
    /\ IsDigits(int) /\ IsDigits(frac) /\ Len(frac) <= Places
    /\ sign \in {<< >>, <<Minus>>} /\ point \in {<< >>, <<Dot>>}
    /\ int = << >> => sign = << >> /\ frac # << >>
    /\ point = << >> => frac = << >>

\* What a text means: the sum of its digits at their places.
Weight(int, frac) ==
    LET digits == int \o frac
        Term(sum, i) == sum + digits[i] * Power[Places + Len(int) - i]
    IN  FoldLeftDomain(Term, 0, digits)

Split(t, i, j, k) ==
    <<SubSeq(t, 1, i), SubSeq(t, i + 1, j), SubSeq(t, j + 1, k), SubSeq(t, k + 1, Len(t))>>

Meaning(t) ==
    LET Cuts == {c \in (0 .. 1) \X (0 .. Len(t)) \X (0 .. Len(t)) :
                    /\ c[1] <= c[2] /\ c[2] <= c[3] /\ c[3] <= c[2] + 1
                    /\ LET p == Split(t, c[1], c[2], c[3]) IN Number(p[1], p[2], p[3], p[4])}
        value(c) == LET p == Split(t, c[1], c[2], c[3])
                    IN  IF p[1] = << >> THEN Weight(p[2], p[4]) ELSE -Weight(p[2], p[4])
    IN  IF Cuts = {} THEN Thrown ELSE ExactOrThrow(value(CHOOSE c \in Cuts : TRUE))
================================================================================
