---------------------------- MODULE DepositShape ----------------------------
(***************************************************************************)
(* How a deposit is spread over the bins of a range (sdk/src/shapes.ts):   *)
(* the three ramps, the blend towards flat, the split of the active bin,   *)
(* and the table of basis points add_liquidity is sent.                    *)
(*                                                                         *)
(* The code works in doubles normalised to 1.  Only ratios of weights are  *)
(* ever used, so here a side's weights are integers on a common scale.     *)
(***************************************************************************)
EXTENDS Integers, FiniteSets, FiniteSetsExt

CONSTANTS
  One,       \* 10_000 basis points, and SPOT_BLEND_MAX
  ShareUnit  \* the scale of activeXShare

ASSUME ShapeAssumption == One \in Nat \ {0} /\ ShareUnit \in Nat \ {0}

Shapes == {"spot", "curve", "bidask"}

Distance(b, active) == IF b >= active THEN b - active ELSE active - b
Total(w) == MapThenSumSet(LAMBDA b : w[b], DOMAIN w)

(* rampWeights: one side's raw weights, on the ramp between its own ends.  *)
(* A side with nowhere to ramp is flat.                                    *)
Ramp(shape, ids, active) ==
  LET near == Min({Distance(b, active) : b \in ids})
      span == Max({Distance(b, active) : b \in ids}) - near
      rise(b) == Distance(b, active) - near
  IN  [b \in ids |-> IF span = 0 \/ shape = "spot" THEN 1
                     ELSE IF shape = "curve" THEN span - rise(b) ELSE rise(b)]

(* blendToSpot, times the number of bins and the total of the ramp.        *)
Blend(w, blend) ==
  [b \in DOMAIN w |->
     (One - blend) * w[b] * Cardinality(DOMAIN w) + blend * Total(w)]

(* splitActive: the active bin keeps only this token's part of its weight, *)
(* unless that leaves the side with nothing.                               *)
SplitActive(w, active, keep) ==
  LET scaled == [b \in DOMAIN w |-> w[b] * (IF b = active THEN keep ELSE ShareUnit)]
  IN  IF Total(scaled) > 0 THEN scaled ELSE w

(* weightsFor: X from the active bin up, Y from it down.                   *)
WeightsFor(lower, upper, active, shape, blend, share) ==
  LET ids == lower .. upper
      side(S, keep) == SplitActive(Blend(Ramp(shape, S, active), blend), active, keep)
      x == side({b \in ids : b >= active}, share)
      y == side({b \in ids : b <= active}, ShareUnit - share)
  IN  [b \in ids |-> [x |-> IF b >= active THEN x[b] ELSE 0,
                      y |-> IF b <= active THEN y[b] ELSE 0]]

-----------------------------------------------------------------------------
(* Mutant: every bin is floored and the remainder is left unspread.        *)
FloorBps(w) ==
  [b \in DOMAIN w |-> IF Total(w) = 0 THEN 0 ELSE (w[b] * One) \div Total(w)]

(* toBps: largest remainder, and a bin of no weight is never handed any.   *)
ToBps(w) ==
  LET total == Total(w)
      floor == [b \in DOMAIN w |-> (w[b] * One) \div total]
      frac(b) == (w[b] * One) % total
      weighted == {b \in DOMAIN w : w[b] > 0}
      left == One - Total(floor)
      ahead(b) == {c \in weighted : frac(c) > frac(b) \/ (frac(c) = frac(b) /\ c < b)}
      extra(b) == b \in weighted /\ Cardinality(ahead(b)) < left
  IN  [b \in DOMAIN w |->
         IF total = 0 THEN 0 ELSE floor[b] + (IF extra(b) THEN 1 ELSE 0)]

(* distributeFromWeights: a table over the bins that carry either token.   *)
Distribute(weights) ==
  LET x == ToBps([b \in DOMAIN weights |-> weights[b].x])
      y == ToBps([b \in DOMAIN weights |-> weights[b].y])
  IN  [b \in {c \in DOMAIN weights : x[c] > 0 \/ y[c] > 0} |-> [x |-> x[b], y |-> y[b]]]

(* preview: what the program places in each bin, rounded down.             *)
Preview(dist, amountX, amountY) ==
  [b \in DOMAIN dist |-> [x |-> (amountX * dist[b].x) \div One,
                          y |-> (amountY * dist[b].y) \div One]]
=============================================================================
