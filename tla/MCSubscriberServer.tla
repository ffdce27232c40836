--------------------------- MODULE MCSubscriberServer ---------------------------
(* Two prices, one level per update, or none; a moving window may leave      *)
(* price 1 behind.                                                           *)
EXTENDS SubscriberServer

CONSTANTS c1, s1, nobook, e1

MCPrices   == {1, 2}
MCChanges  == {<< >>} \cup {p :> q : p \in MCPrices, q \in 0 .. 1}
MCContents == {(1 :> 1) @@ (2 :> 2)}
MCDrops    == {{}, {1}}
OneBook    == s1 :> e1
=============================================================================
