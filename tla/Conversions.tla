------------------------------ MODULE Conversions ------------------------------
(***************************************************************************)
(* All inputs of Arithmetic and Decimal, one a state: two operands, or a    *)
(* text that arrives character by character.                               *)
(***************************************************************************)
EXTENDS Decimal

CONSTANT MaxLength              \* bound of the instance: the longest text

ASSUME ConversionsAssumption == MaxLength \in Nat

VARIABLES left, right, text

vars == <<left, right, text>>

Init ==
    /\ left \in Word /\ right \in Word
    /\ text = << >>

\* Texts and operands are not combined.
Arrives(c) ==
    /\ left = 0 /\ right = 0
    /\ Len(text) < MaxLength
    /\ text' = Append(text, c)
    /\ UNCHANGED <<left, right>>

Next == \E c \in Char : Arrives(c)

Spec == Init /\ [][Next]_vars

-----------------------------------------------------------------------------
\* Saturating arithmetic gives the word nearest to the true result, at both ends and
\* for the word that has no negative (checked_arith.hpp:4-6).
SaturatesAtBothEnds ==
    /\ checkedAdd(left, right) = Clamp(left + right)
    /\ checkedSubtract(left, right) = Clamp(left - right)
    /\ checkedMultiply(left, right) = Clamp(left * right)

\* Throwing arithmetic throws exactly when the true result is no word, whatever the
\* signs: its test divides, and C++ division truncates (safe_arithmetic.hpp:7-50).
ThrowsExactlyOnOverflow ==
    /\ safeAdd(left, right) = ExactOrThrow(left + right)
    /\ safeSubstract(left, right) = ExactOrThrow(left - right)
    /\ safeMultiply(left, right) = ExactOrThrow(left * right)

\* A text is read as the number it means, to the last place and to the last word at
\* both ends, and everything else is refused (decimal.hpp:53-78).
ParseIsExact == parseDecimal(text) = Meaning(text)

\* What subscribers are sent reads as the number in the book, the smallest word
\* included (subscriber_protocol.hpp:86-87).
FormatReadsBack == parseDecimal(formatScaled(left)) = left
=============================================================================
