------------------------------ MODULE QuoteHopMC ------------------------------
(* Three bins, one to an array, so that a swap reaches fewer arrays than   *)
(* there are bins to walk; mints without a fee, with a plain one, with a   *)
(* capped one, and with one that an epoch turns over.                      *)
EXTENDS QuoteHop

Lowest == -1
LadderPrice == [b \in -1 .. 1 |-> b + 3]
LadderStep == [b \in -1 .. 1 |-> IF b < 0 THEN 1 ELSE 2]

Fee(bps, maximum) == [bps |-> bps, maximum |-> maximum]
Plain == [owner |-> "Token", older |-> NoFee, newer |-> NoFee, turns |-> 0]
Turning(older, newer) ==
  [owner |-> "Token2022", older |-> older, newer |-> newer, turns |-> 1]
SmallMints ==
  {[x |-> Plain,                             y |-> Turning(Fee(1, 63), Fee(4, 2))],
   [x |-> Turning(Fee(4, 63), Fee(4, 63)),   y |-> Turning(Fee(10, 2), Fee(10, 2))],
   [x |-> Turning(Fee(9, 1), NoFee),         y |-> Turning(Fee(3, 2), Fee(3, 2))]}
=============================================================================
