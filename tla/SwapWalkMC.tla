----------------------------- MODULE SwapWalkMC -----------------------------
(* A small ladder for SwapWalk: three bins in two arrays, whose prices and *)
(* widths differ from bin to bin.                                          *)
EXTENDS SwapWalk

Lowest == -1
LadderPrice == [b \in -1 .. 1 |-> b + 3]
LadderStep == [b \in -1 .. 1 |-> IF b < 0 THEN 1 ELSE 2]
=============================================================================
