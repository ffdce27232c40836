------------------------------ MODULE OrderBook ------------------------------
(***************************************************************************)
(* One order book (src/src/order_book.hpp, order_book.cpp): per side a     *)
(* price ladder and the OFI view, the OfiDepth best levels kept sorted.    *)
(*                                                                         *)
(* Every public operation holds orderBookMutex from its first access to    *)
(* the state to its last, so each is one action.  JSON is parsed before    *)
(* the lock is taken; the actions take the parsed levels.                  *)
(***************************************************************************)
EXTENDS PriceLadder, SequencesExt

CONSTANTS
    OfiDepth,       \* levels per side in the OFI view
    Snapshots,      \* per feed, contents of snapshot messages: [bids, asks], each
    Updates,        \* a sequence of <<price, qty>>; and contents of updates
    MaxId           \* bound on the update ids of the instance

Sides == {"bid", "ask"}
Feeds == {"binance", "kraken"}      \* numbered updates; plain deltas

\* The adapters only pass parsed prices and quantities.
LevelList == Seq((Nat \ {0}) \X Nat)

ASSUME OrderBookAssumption ==
    /\ OfiDepth \in Nat \ {0}
    /\ MaxId \in Nat
    /\ \A f \in Feeds : \A m \in Snapshots[f] \cup Updates[f] :
          m.bids \in LevelList /\ m.asks \in LevelList

Genuine     == "Genuine"
Backfill    == "Backfill"
Maintenance == "Maintenance"

VARIABLES
    feed,               \* the adapter the book belongs to; never changes
    ladders,            \* bidLadder and askLadder
    views,              \* ofiBids and ofiAsks, best level first
    lastUpdateId,
    snapshotApplied,
    result              \* what the last operation returned to its caller, and
                        \* (history) the sides on which a set() recentred

vars == <<feed, ladders, views, lastUpdateId, snapshotApplied, result>>

-----------------------------------------------------------------------------
(* The two directions of the book.                                         *)

PriceOf(level) == level[1]
QtyOf(level)   == level[2]
NoLevel        == <<NoPrice, 0>>

Better(side, p, r) == IF side = "bid" THEN p > r ELSE p < r

Best(side, l)      == IF side = "bid" THEN bestHigh(l) ELSE bestLow(l)
Beyond(side, l, p) == IF side = "bid" THEN prevBelow(l, p) ELSE nextAbove(l, p)

\* Beyond the window on the side away from the market.
IsDeep(side, l, p) == IF side = "bid" THEN p < windowLow(l) ELSE p > windowHigh(l)

InView(view, price) == \E i \in DOMAIN view : PriceOf(view[i]) = price

\* Where a price is or belongs in a view.
Rank(side, view, price) ==
    1 + Cardinality({i \in DOMAIN view : Better(side, PriceOf(view[i]), price)})

-----------------------------------------------------------------------------
(* The OFI view.                                                           *)

\* The best level of the ladder that comes after those of a view.
NextBeyond(side, l, view) ==
    IF view = << >> THEN Best(side, l) ELSE Beyond(side, l, PriceOf(Last(view)))

\* One step of the walk from the best level outwards; it takes at most OfiDepth.
Walked(side, l, found) ==
    LET p == NextBeyond(side, l, found)
    IN  IF p > 0 THEN Append(found, <<p, get(l, p)>>) ELSE found

rebuildOfiSide(side, l) ==
    LET walk[n \in 0 .. OfiDepth] ==
            IF n = 0 THEN << >> ELSE Walked(side, l, walk[n - 1])
    IN  walk[OfiDepth]

\* An erased level makes room for the next one on the ladder.
EraseFromView(side, l, view, price) ==
    LET rest    == RemoveAt(view, Rank(side, view, price))
        p       == NextBeyond(side, l, rest)
        newView == IF p # NoPrice THEN Append(rest, <<p, get(l, p)>>) ELSE rest
        refilled == Len(view) = OfiDepth /\ Len(newView) = OfiDepth
    IN  [view |-> newView, evicted |-> NoLevel,
         replacement |-> IF refilled THEN Last(newView) ELSE NoLevel]

\* Mutant: lets the view grow.
InsertWithoutEvicting(side, view, price, qty) ==
    [view |-> InsertAt(view, Rank(side, view, price), <<price, qty>>),
     evicted |-> NoLevel, replacement |-> NoLevel]

\* An inserted level may push the worst one out.
InsertIntoView(side, view, price, qty) ==
    LET wider == InsertAt(view, Rank(side, view, price), <<price, qty>>)
    IN  IF Len(wider) > OfiDepth
        THEN [view |-> Front(wider), evicted |-> Last(wider), replacement |-> NoLevel]
        ELSE [view |-> wider, evicted |-> NoLevel, replacement |-> NoLevel]

updateOfiView(side, l, view, price, qty) ==
    LET unchanged == [view |-> view, evicted |-> NoLevel, replacement |-> NoLevel]
        amended   == ReplaceAt(view, Rank(side, view, price), <<price, qty>>)
        enters    == \/ Len(view) < OfiDepth
                     \/ view # << >> /\ Better(side, price, PriceOf(Last(view)))
    IN  CASE InView(view, price) /\ qty = 0 -> EraseFromView(side, l, view, price)
          [] InView(view, price) /\ qty > 0 -> [unchanged EXCEPT !.view = amended]
          [] ~InView(view, price) /\ qty > 0 /\ enters ->
                InsertIntoView(side, view, price, qty)
          [] OTHER -> unchanged

-----------------------------------------------------------------------------
(* One level change: ladder, view and the deltas it emits.                 *)

LevelDelta(side, price, newQty, delta, was, is, kind) ==
    [price |-> price, newQty |-> newQty, deltaQty |-> delta, side |-> side,
     wasInView |-> was, inOfiView |-> is, kind |-> kind]

SecondaryKind(kind) == IF kind = Backfill THEN Backfill ELSE Maintenance

\* Mutant: reads wasInView after the view has changed.
WasReadTooLate(side, price, newQty, delta, before, after, kind) ==
    LevelDelta(side, price, newQty, delta, InView(after, price), InView(after, price), kind)

\* Mutant: puts the change where the quantity belongs.
QtyAndDeltaSwapped(side, price, newQty, delta, before, after, kind) ==
    LevelDelta(side, price, delta, newQty, InView(before, price), InView(after, price), kind)

\* The delta of the level itself, given the view before and after its change.
PrimaryDelta(side, price, newQty, delta, before, after, kind) ==
    LevelDelta(side, price, newQty, delta, InView(before, price), InView(after, price), kind)

\* Mutant: for each of the next two.
NoDelta(side, level, kind) == << >>

EvictionDelta(side, level, kind) ==
    IF level = NoLevel THEN << >>
    ELSE << LevelDelta(side, PriceOf(level), QtyOf(level), -QtyOf(level), TRUE, FALSE,
                       SecondaryKind(kind)) >>

ReplacementDelta(side, level, kind) ==
    IF level = NoLevel THEN << >>
    ELSE << LevelDelta(side, PriceOf(level), QtyOf(level), QtyOf(level), FALSE, TRUE,
                       SecondaryKind(kind)) >>

\* half: [ladder, view, out, moved] of one side, threaded through the levels of
\* a message.
applyLevelChange(half, side, price, newQty, kind) ==
    LET old    == half.ladder
        ladder == set(old, price, newQty)
        view   == IF Recenters(old, price) THEN rebuildOfiSide(side, ladder) ELSE half.view
        moved  == half.moved \cup (IF Recenters(old, price) THEN {side} ELSE {})
        delta  == newQty - get(old, price)
        change == updateOfiView(side, ladder, view, price, newQty)
    IN  IF old.count > 0 /\ ~inRange(old, price) /\ IsDeep(side, old, price)
        THEN half
        ELSE IF delta = 0
        THEN [half EXCEPT !.ladder = ladder, !.view = view, !.moved = moved]
        ELSE [ladder |-> ladder, view |-> change.view, moved |-> moved,
              out |-> Append(half.out, PrimaryDelta(side, price, newQty, delta, view,
                                                    change.view, kind))
                          \o EvictionDelta(side, change.evicted, kind)
                          \o ReplacementDelta(side, change.replacement, kind)]

ApplyLevels(side, levels, kind, prior) ==
    FoldLeft(LAMBDA half, lvl : applyLevelChange(half, side, PriceOf(lvl), QtyOf(lvl), kind),
             [ladder |-> ladders[side], view |-> views[side],
              out |-> prior.out, moved |-> prior.moved], levels)

\* Applies the levels of the first side, then those of the second.
ApplyBothSides(first, firstLevels, second, secondLevels, kind) ==
    LET a == ApplyLevels(first, firstLevels, kind, [out |-> << >>, moved |-> {}])
        b == ApplyLevels(second, secondLevels, kind, a)
    IN  /\ ladders' = [ladders EXCEPT ![first] = a.ladder, ![second] = b.ladder]
        /\ views' = [views EXCEPT ![first] = a.view, ![second] = b.view]
        /\ result' = [success |-> TRUE, deltas |-> b.out, moved |-> b.moved]

-----------------------------------------------------------------------------
(* The operations.                                                         *)

Nothing == [success |-> TRUE, deltas |-> << >>, moved |-> {}]

Init ==
    /\ feed \in Feeds
    /\ ladders = [s \in Sides |-> NewLadder]
    /\ views = [s \in Sides |-> << >>]
    /\ lastUpdateId = 0
    /\ snapshotApplied = FALSE
    /\ result = Nothing

\* The first level places the window; later ones outside it are skipped.
LoadLevel(l, lvl) ==
    IF QtyOf(lvl) > 0 /\ (inRange(l, PriceOf(lvl)) \/ l.count = 0)
    THEN set(l, PriceOf(lvl), QtyOf(lvl)) ELSE l

LoadSide(l, levels) == FoldLeft(LoadLevel, clear(l), levels)

applySnapshot(newLastUpdateId, bids, asks) ==
    LET loaded == [s \in Sides |-> LoadSide(ladders[s], IF s = "bid" THEN bids ELSE asks)]
    IN  /\ lastUpdateId' = newLastUpdateId
        /\ ladders' = loaded
        /\ views' = [s \in Sides |-> rebuildOfiSide(s, loaded[s])]
        /\ snapshotApplied' = TRUE
        /\ result' = Nothing

\* Binance: numbered updates, asks before bids.
applyUpdate(firstId, lastId, asks, bids, kind) ==
    \/ /\ lastId <= lastUpdateId                                     \* stale
       /\ result' = Nothing
       /\ UNCHANGED <<ladders, views, lastUpdateId, snapshotApplied>>
    \/ /\ lastId > lastUpdateId /\ firstId > lastUpdateId + 1        \* gap
       /\ result' = [Nothing EXCEPT !.success = FALSE]
       /\ UNCHANGED <<ladders, views, lastUpdateId, snapshotApplied>>
    \/ /\ lastId > lastUpdateId /\ firstId <= lastUpdateId + 1
       /\ ApplyBothSides("ask", asks, "bid", bids, kind)
       /\ lastUpdateId' = lastId
       /\ UNCHANGED snapshotApplied

\* Kraken: unnumbered deltas, bids before asks.
applyDelta(bids, asks, kind) ==
    /\ ApplyBothSides("bid", bids, "ask", asks, kind)
    /\ UNCHANGED <<lastUpdateId, snapshotApplied>>

\* Mutant: the id survives.
ClearBookKeepsId ==
    /\ UNCHANGED lastUpdateId
    /\ snapshotApplied' = FALSE
    /\ ladders' = [s \in Sides |-> clear(ladders[s])]
    /\ views' = [s \in Sides |-> << >>]
    /\ result' = Nothing

clearBook ==
    /\ lastUpdateId' = 0
    /\ snapshotApplied' = FALSE
    /\ ladders' = [s \in Sides |-> clear(ladders[s])]
    /\ views' = [s \in Sides |-> << >>]
    /\ result' = Nothing

-----------------------------------------------------------------------------
(* The calls the adapters make.  A Binance book sees snapshots, live and    *)
(* replayed updates and clear(), in any order the threads of the adapter    *)
(* produce; update ids start at 2, so that a cleared book, whose id is 0,   *)
(* is never continued (real ids are huge).  A Kraken book gets its snapshot *)
(* with id 0 and deltas only once it has one.                               *)

BinanceSnapshot ==
    \E m \in Snapshots[feed], id \in 1 .. MaxId : applySnapshot(id, m.bids, m.asks)

BinanceUpdate ==
    \E m \in Updates[feed], last \in 2 .. MaxId, kind \in {Genuine, Backfill} :
        \E first \in 2 .. last : applyUpdate(first, last, m.asks, m.bids, kind)

KrakenSnapshot == \E m \in Snapshots[feed] : applySnapshot(0, m.bids, m.asks)

KrakenUpdate ==
    /\ snapshotApplied
    /\ \E m \in Updates[feed] : applyDelta(m.bids, m.asks, Genuine)

Next ==
    /\ \/ feed = "binance" /\ (BinanceSnapshot \/ BinanceUpdate)
       \/ feed = "kraken" /\ (KrakenSnapshot \/ KrakenUpdate)
       \/ clearBook
    /\ UNCHANGED feed

Spec == Init /\ [][Next]_vars

-----------------------------------------------------------------------------
LevelDeltaType ==
    [price : Int, newQty : Nat, deltaQty : Int, side : Sides, wasInView : BOOLEAN,
     inOfiView : BOOLEAN, kind : {Genuine, Backfill, Maintenance}]

\* Shape of the state; the views never exceed their depth.
TypeOK ==
    /\ feed \in Feeds
    /\ ladders \in [Sides -> LadderType]
    /\ views \in [Sides -> Seq(Int \X Nat)]
    /\ \A s \in Sides : Len(views[s]) <= OfiDepth
    /\ lastUpdateId \in 0 .. MaxId
    /\ snapshotApplied \in BOOLEAN
    /\ result \in [success : BOOLEAN, deltas : Seq(LevelDeltaType), moved : SUBSET Sides]

\* The view holds the best levels of a side, best first, with their quantities; a
\* level it does not hold is worse than all of them, and then it is full.
TopOf(side, levels, view, depth) ==
    /\ Len(view) <= depth
    /\ \A i \in DOMAIN view : /\ PriceOf(view[i]) \in DOMAIN levels
                              /\ QtyOf(view[i]) = levels[PriceOf(view[i])]
    /\ \A i, j \in DOMAIN view : i < j => Better(side, PriceOf(view[i]), PriceOf(view[j]))
    /\ \A p \in DOMAIN levels :
          \/ InView(view, p)
          \/ /\ Len(view) = depth
             /\ \A i \in DOMAIN view : Better(side, PriceOf(view[i]), p)

\* The incrementally maintained OFI view is the top of the ladder, after any
\* sequence of insertions, evictions, removals with replacement, recentrings,
\* snapshots and clears (order_book.cpp:186-285).
ViewIsTopOfBook ==
    \A s \in Sides : TopOf(s, Levels(ladders[s]), views[s], OfiDepth)

\* A cleared book shows nothing and is behind every update.
ClearedBookIsEmpty ==
    ~snapshotApplied => lastUpdateId = 0 /\ \A s \in Sides : ladders[s].count = 0

-----------------------------------------------------------------------------
(* What a caller may conclude from the deltas of one update.               *)

IsUpdate ==
    \/ feed = "binance" /\ BinanceUpdate
    \/ feed = "kraken" /\ KrakenUpdate

\* No level of the side was left behind by a moving window.
SameWindow(s) == s \notin result'.moved

PricesIn(view)  == {PriceOf(view[i]) : i \in DOMAIN view}
ViewTotal(view) == FoldLeft(LAMBDA sum, level : sum + QtyOf(level), 0, view)

Patched(levels, p, qty) ==
    IF qty = 0 THEN Restrict(levels, DOMAIN levels \ {p})
    ELSE [r \in DOMAIN levels \cup {p} |-> IF r = p THEN qty ELSE levels[r]]

\* What the reader of a delta makes of it: the sum of an OFI consumer for the side
\* (main.cpp:315-323), a copy of the levels patched with the state changes, the
\* prices the view is said to hold, and whether no flag has contradicted that.
Read(reader, d) ==
    [ofi    |-> reader.ofi + (IF d.wasInView \/ d.inOfiView THEN d.deltaQty ELSE 0),
     levels |-> IF d.kind = Maintenance THEN reader.levels
                ELSE Patched(reader.levels, d.price, d.newQty),
     inView |-> IF d.inOfiView THEN reader.inView \cup {d.price}
                ELSE reader.inView \ {d.price},
     right  |-> reader.right /\ d.wasInView = (d.price \in reader.inView)]

Heard(s, reader, deltas) ==
    FoldLeft(LAMBDA r, d : IF d.side = s THEN Read(r, d) ELSE r, reader, deltas)

\* A reader who knows a side as it was before the update, after its deltas.
Told(s) ==
    Heard(s, [ofi |-> 0, levels |-> Levels(ladders[s]), inView |-> PricesIn(views[s]),
              right |-> TRUE],
          result'.deltas)

\* The deltas of an update account exactly for the change of the quantity in
\* the view: what enters, leaves, is evicted or moves up is counted once
\* (ofi_types.hpp:21-22), as long as the window does not move.
OfiDeltasAccountForView ==
    [][IsUpdate => \A s \in Sides : SameWindow(s) =>
          Told(s).ofi = ViewTotal(views'[s]) - ViewTotal(views[s])]_vars

\* A copy of the book that is patched with the deltas stays equal to the book
\* while the window does not move.
DeltasReproduceBook ==
    [][IsUpdate => \A s \in Sides : SameWindow(s) =>
          Told(s).levels = Levels(ladders'[s])]_vars

\* The flags of the deltas follow the view: reading the deltas of a price in
\* order, each says it was where the one before left it, the first one what the
\* view was before the update and the last one what it is after it; a price
\* without a delta has not moved (ofi_types.hpp:15-16).
FlagsFollowView ==
    [][IsUpdate => \A s \in Sides : SameWindow(s) =>
          Told(s).right /\ Told(s).inView = PricesIn(views'[s])]_vars
=============================================================================
