----------------------------- MODULE PriceWindow -----------------------------
(***************************************************************************)
(* What one side of the book promises, without an array: a map from price  *)
(* to quantity, and a window of fixed width around a centre.  A price      *)
(* inside the window is stored exactly; a price outside it moves the       *)
(* window, and the levels the new window no longer covers are forgotten.   *)
(***************************************************************************)
EXTENDS Integers, Functions

CONSTANTS TickSize, HalfRange, Prices, Quantities

VARIABLES centre,       \* middle of the window, NoCentre before the first set
          levels        \* the quantities, for the prices that have one

vars == <<centre, levels>>

NoCentre == 0            \* a centre is a price, and prices are positive

Covers(c, p) == p - c <= HalfRange * TickSize /\ c - p <= HalfRange * TickSize

Init == centre = NoCentre /\ levels = << >>

\* A set with a quantity of zero removes the level.
Set(p, q) ==
    LET c    == IF centre = NoCentre \/ ~Covers(centre, p) THEN p ELSE centre
        kept == {r \in DOMAIN levels : Covers(c, r)}
    IN  /\ centre' = c
        /\ levels' = IF q = 0
                     THEN Restrict(levels, kept \ {p})
                     ELSE [r \in kept \cup {p} |-> IF r = p THEN q ELSE levels[r]]

Clear == centre' = NoCentre /\ levels' = << >>

Next == Clear \/ \E p \in Prices, q \in Quantities : Set(p, q)

Spec == Init /\ [][Next]_vars
=============================================================================
