------------------------------ MODULE MCMetrics ------------------------------
(* Values for the constants of OfiMetrics.                                  *)
EXTENDS OfiMetrics

Bounds == <<1, 2>>

Bid(q)      == [isBid |-> TRUE, deltaQty |-> q, counts |-> TRUE]
Ask(q)      == [isBid |-> FALSE, deltaQty |-> q, counts |-> TRUE]
Backfill(q) == [isBid |-> TRUE, deltaQty |-> q, counts |-> FALSE]

\* Nothing that counts; a trade; both ends of the word, reached and passed.
MixedMessages ==
    {<<Backfill(5)>>, <<Bid(5), Ask(-3)>>, <<Bid(WordMax), Backfill(1)>>, <<Ask(WordMin)>>}
=============================================================================
