--------------------------- MODULE MCLadderMachine ---------------------------
(* A window of five slots of two units over eight prices: the window can    *)
(* move by less than its width, by its width and by more, both ways, and at *)
(* the lowest prices its base is zero or negative.                          *)
EXTENDS LadderMachine

MCPrices == {2 * n : n \in 1 .. 8}
MCQuantities == 0 .. 2
=============================================================================
