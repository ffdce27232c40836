----------------------------- MODULE MCOrderBook -----------------------------
(* Three slots and a view of two: every level change can evict, replace,    *)
(* recentre or be dropped as deep.                                          *)
EXTENDS OrderBook

\* Level lists of at most n levels over distinct prices.
LevelLists(prices, qtys, n) ==
    {ls \in UNION {[1 .. k -> prices \X qtys] : k \in 0 .. n} :
        \A i, j \in DOMAIN ls : i # j => ls[i][1] # ls[j][1]}

Both(bidLists, askLists) == {[bids |-> b, asks |-> a] : b \in bidLists, a \in askLists}

\* A Binance book: one level per message, on the ask side, with quantities that
\* change in place; snapshots with levels on that side.
Singles   == LevelLists(1 .. 5, 0 .. 2, 1)
AskSides  == {<< >>, << <<2, 1>>, <<3, 2>>, <<4, 1>> >>}

\* A Kraken book: two levels on one side and one on the other.
Pairs     == LevelLists(2 .. 5, 0 .. 1, 2)
OneAsk    == << <<6, 1>> >>

MCSnapshots ==
    [f \in Feeds |-> IF f = "binance" THEN Both({<< >>}, AskSides)
                     ELSE Both({<< <<4, 1>>, <<3, 1>> >>}, {OneAsk})]
MCUpdates ==
    [f \in Feeds |-> IF f = "binance" THEN Both({<< >>}, Singles)
                     ELSE Both(Pairs, {<< >>, OneAsk})]
=============================================================================
