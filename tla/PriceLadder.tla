----------------------------- MODULE PriceLadder -----------------------------
(***************************************************************************)
(* One side of an order book kept as a flat array of quantities indexed by *)
(* price tick (src/src/price_ladder.hpp, price_ladder.cpp).                *)
(*                                                                         *)
(* This module holds the operations of the class as operators on a ladder  *)
(* record, so that an order book can own two of them.  The linear scans of *)
(* the code are written as the extremum they compute.                      *)
(*                                                                         *)
(* Prices are positive.  The code stores prices and quantities as scaled   *)
(* 64-bit integers; the bounded instances stay far from overflow.          *)
(***************************************************************************)
EXTENDS Integers, FiniteSets, FiniteSetsExt

CONSTANTS TickSize,     \* price increment between two neighbouring slots
          HalfRange     \* slots on each side of the centre of the window

ASSUME LadderAssumption == TickSize \in Nat \ {0} /\ HalfRange \in Nat

Size  == 2 * HalfRange + 1
Slots == 0 .. Size - 1

NoSlot  == -1           \* bestHighIdx and bestLowIdx of an empty side
NoPrice == 0            \* what the price queries return for "none"

LadderType ==
    [initialized : BOOLEAN,
     basePrice   : Int,
     qtys        : [Slots -> Nat],
     count       : Nat,
     bestHighIdx : Slots \cup {NoSlot},
     bestLowIdx  : Slots \cup {NoSlot}]

NewLadder ==
    [initialized |-> FALSE, basePrice |-> 0, qtys |-> [i \in Slots |-> 0],
     count |-> 0, bestHighIdx |-> NoSlot, bestLowIdx |-> NoSlot]

-----------------------------------------------------------------------------
(* Index arithmetic and the window.                                        *)

toIdx(l, price) == (price - l.basePrice) \div TickSize
toPrice(l, i)   == l.basePrice + i * TickSize

inRange(l, price) ==
    /\ l.initialized
    /\ price >= l.basePrice
    /\ toIdx(l, price) < Size

windowLow(l)  == IF l.initialized THEN l.basePrice ELSE NoPrice
windowHigh(l) == IF l.initialized THEN toPrice(l, Size - 1) ELSE NoPrice

\* The base that puts the tick of a price in the middle slot.
CentredBase(price) == (price \div TickSize) * TickSize - HalfRange * TickSize

-----------------------------------------------------------------------------
(* The scans over the array.                                               *)

ActiveSlots(qtys) == {i \in Slots : qtys[i] > 0}

\* Highest active slot at or below i, lowest active slot at or above i.
LastActive(qtys, i) ==
    LET A == {j \in ActiveSlots(qtys) : j <= i}
    IN  IF A = {} THEN NoSlot ELSE Max(A)

FirstActive(qtys, i) ==
    LET A == {j \in ActiveSlots(qtys) : j >= i}
    IN  IF A = {} THEN NoSlot ELSE Min(A)

-----------------------------------------------------------------------------
(* set(), with the two ways the window can move.                           *)

initCenter(l, price) ==
    [l EXCEPT !.initialized = TRUE, !.basePrice = CentredBase(price)]

rebuildBestIndices(l) ==
    [l EXCEPT !.count       = Cardinality(ActiveSlots(l.qtys)),
              !.bestHighIdx = LastActive(l.qtys, Size - 1),
              !.bestLowIdx  = FirstActive(l.qtys, 0)]

\* Mutant: slides the array the wrong way.
RecenterBackwards(l, price) ==
    LET shift == (CentredBase(price) - l.basePrice) \div TickSize
        moved == [i \in Slots |-> IF i - shift \in Slots THEN l.qtys[i - shift] ELSE 0]
    IN  rebuildBestIndices([l EXCEPT !.basePrice = CentredBase(price), !.qtys = moved])

\* Slides the array under the new window: slots that stay keep their price,
\* slots that enter are zero.
recenter(l, price) ==
    LET newBase == CentredBase(price)
        shift   == (newBase - l.basePrice) \div TickSize
        keeps   == shift # 0 /\ shift < Size /\ -shift < Size
        moved   == [i \in Slots |-> IF keeps /\ i + shift \in Slots
                                    THEN l.qtys[i + shift] ELSE 0]
    IN  rebuildBestIndices([l EXCEPT !.basePrice = newBase, !.qtys = moved])

\* The window set(price, _) leaves behind, before the slot is written.
Windowed(l, price) ==
    CASE ~l.initialized    -> initCenter(l, price)
      [] inRange(l, price) -> l
      [] OTHER             -> recenter(l, price)

\* Mutant: removing what is not there counts too.
CountAfterAnyZero(count, old, qty) ==
    CASE old = 0 /\ qty > 0 -> count + 1
      [] qty = 0            -> count - 1
      [] OTHER              -> count

CountAfter(count, old, qty) ==
    CASE old = 0 /\ qty > 0 -> count + 1
      [] old > 0 /\ qty = 0 -> count - 1
      [] OTHER              -> count

HighAfter(hi, qtys, idx, qty) ==
    CASE qty > 0 /\ idx > hi -> idx
      [] qty = 0 /\ idx = hi -> LastActive(qtys, hi)
      [] OTHER               -> hi

\* Mutant: forgets that the first level of an empty side is its lowest.
LowAfterOfNonEmpty(lo, qtys, idx, qty) ==
    CASE qty > 0 /\ idx < lo -> idx
      [] qty = 0 /\ idx = lo -> FirstActive(qtys, lo + 1)
      [] OTHER               -> lo

LowAfter(lo, qtys, idx, qty) ==
    CASE qty > 0 /\ (lo < 0 \/ idx < lo) -> idx
      [] qty = 0 /\ idx = lo             -> FirstActive(qtys, lo + 1)
      [] OTHER                           -> lo

\* Writes one slot of a ladder whose window holds it.
WriteSlot(l, idx, qty) ==
    LET qtys == [l.qtys EXCEPT ![idx] = qty]
    IN  [l EXCEPT !.qtys        = qtys,
                  !.count       = CountAfter(@, l.qtys[idx], qty),
                  !.bestHighIdx = HighAfter(@, qtys, idx, qty),
                  !.bestLowIdx  = LowAfter(@, qtys, idx, qty)]

set(l, price, qty) ==
    LET w == Windowed(l, price) IN WriteSlot(w, toIdx(w, price), qty)

\* Mutant: set() does not tell its caller that the window moved.
NeverReportsRecentre(l, price) == FALSE

\* The value set(price, _) returns.
Recenters(l, price) == l.initialized /\ ~inRange(l, price)

\* The array is zeroed only if a window was ever centred on it; the base stays.
clear(l) ==
    [l EXCEPT !.initialized = FALSE,
              !.qtys        = IF l.initialized THEN [i \in Slots |-> 0] ELSE @,
              !.count       = 0,
              !.bestHighIdx = NoSlot,
              !.bestLowIdx  = NoSlot]

-----------------------------------------------------------------------------
(* Queries.                                                                *)

get(l, price) == IF inRange(l, price) THEN l.qtys[toIdx(l, price)] ELSE 0

PriceOfSlot(l, i) == IF i = NoSlot THEN NoPrice ELSE toPrice(l, i)

bestHigh(l) == PriceOfSlot(l, l.bestHighIdx)
bestLow(l)  == PriceOfSlot(l, l.bestLowIdx)

\* Mutant: looks at the boundary itself too.
PrevAtOrBelow(l, below) ==
    IF ~l.initialized \/ l.bestHighIdx < 0 \/ below <= l.basePrice
    THEN NoPrice
    ELSE PriceOfSlot(l, LastActive(l.qtys, toIdx(l, below)))

prevBelow(l, below) ==
    LET offset == below - l.basePrice IN
    IF ~l.initialized \/ l.bestHighIdx < 0 \/ offset <= 0
    THEN NoPrice
    ELSE PriceOfSlot(l, LastActive(l.qtys, (offset - 1) \div TickSize))

nextAbove(l, above) ==
    LET offset == above - l.basePrice
        start  == IF offset < 0 THEN 0 ELSE offset \div TickSize + 1
    IN  IF ~l.initialized \/ l.bestLowIdx < 0
        THEN NoPrice
        ELSE PriceOfSlot(l, FirstActive(l.qtys, start))

\* What forEach visits: the active levels, as a function from price to quantity.
Levels(l) ==
    [p \in {toPrice(l, i) : i \in ActiveSlots(l.qtys)} |-> l.qtys[toIdx(l, p)]]

-----------------------------------------------------------------------------
(* The count and the two best indices always describe the array.  set()    *)
(* maintains them incrementally, recenter() from scratch; a slip in either *)
(* shows only after a particular history of sets and removals.             *)
IndexConsistent(l) ==
    /\ l.count = Cardinality(ActiveSlots(l.qtys))
    /\ l.bestHighIdx = LastActive(l.qtys, Size - 1)
    /\ l.bestLowIdx = FirstActive(l.qtys, 0)

\* An uninitialised ladder holds nothing: initCenter does not wipe the array.
BlankUntilCentred(l) == ~l.initialized => ActiveSlots(l.qtys) = {}
=============================================================================
