---------------------------- MODULE LadderMachine ----------------------------
(***************************************************************************)
(* The life of one PriceLadder: any sequence of set() and clear() calls on *)
(* it.  PriceWindow is the abstract map it implements.                     *)
(***************************************************************************)
EXTENDS PriceLadder

CONSTANTS Prices, Quantities

\* The adapters only pass parsed prices and quantities; set() asserts qty >= 0.
\* price_ladder.hpp also asks for prices on the tick grid, which its callers do
\* not ensure: whether they are is left to the instance.
ASSUME InputAssumption == Prices \subseteq Nat \ {0} /\ Quantities \subseteq Nat

VARIABLE ladder

LadderInit == ladder = NewLadder

SetLevel(price, qty) == ladder' = set(ladder, price, qty)

ClearAll == ladder' = clear(ladder)

LadderNext == ClearAll \/ \E p \in Prices, q \in Quantities : SetLevel(p, q)

LadderSpec == LadderInit /\ [][LadderNext]_ladder

-----------------------------------------------------------------------------
\* The record keeps its shape, and the slots stay inside the array.
LadderTypeOK == ladder \in LadderType

\* count, bestHighIdx and bestLowIdx describe the array, whatever sequence of
\* sets, removals and recentrings led to it (price_ladder.cpp:108-137).
IndicesDescribeArray == IndexConsistent(ladder)

\* Nothing survives clear() in the array: the next set() only moves the base,
\* so a leftover quantity would reappear at a wrong price.
BlankWhenUninitialised == BlankUntilCentred(ladder)

\* Extremum of a set of prices, or the sentinel.
HighestOf(S) == IF S = {} THEN NoPrice ELSE Max(S)
LowestOf(S)  == IF S = {} THEN NoPrice ELSE Min(S)

\* bestHigh, bestLow, prevBelow and nextAbove answer what a search of the whole
\* side would, for boundaries inside, outside and at the edges of the window.
QueriesAgreeWithSearch ==
    LET active == DOMAIN Levels(ladder) IN
    /\ bestHigh(ladder) = HighestOf(active)
    /\ bestLow(ladder) = LowestOf(active)
    /\ \A b \in Prices :
          /\ prevBelow(ladder, b) = HighestOf({p \in active : p < b})
          /\ nextAbove(ladder, b) = LowestOf({p \in active : p > b})

\* Shifting and zeroing the array is the same as forgetting the levels that the
\* new window does not cover; nothing else is lost, moved or resurrected.
Window == INSTANCE PriceWindow WITH
    centre <- IF ladder.initialized
              THEN ladder.basePrice + HalfRange * TickSize ELSE 0,
    levels <- Levels(ladder)

ImplementsWindow == Window!Spec
=============================================================================
