------------------------------ MODULE LadderWalk ------------------------------
(***************************************************************************)
(* walk_ladder (quote.rs) as what it is to its caller: a function from the *)
(* pool, its bins and a budget to what was bought, what it cost and what   *)
(* the pool would look like.  SwapWalk takes the same walk bin by bin; its *)
(* EndsAsWalked says that the two agree.                                   *)
(***************************************************************************)
EXTENDS FeeSchedule

CONSTANTS
  MinBin, MaxBin,        \* Config.min_bin_id, max_bin_id
  BinsPerArray,          \* MAX_BIN_PER_ARRAY
  MaxBinsPerSwap,        \* MAX_BINS_PER_SWAP
  PriceOf, StepOf        \* Bin.price, Bin.step_bp_x100, by bin

Bins == MinBin .. MaxBin

ASSUME LadderAssumption ==
  /\ MinBin \in Int /\ MaxBin \in Int /\ MinBin <= MaxBin
  /\ BinsPerArray \in Nat \ {0} /\ MaxBinsPerSwap \in Nat
  /\ PriceOf \in [Bins -> Nat \ {0}] /\ StepOf \in [Bins -> Nat]

(* The pool's bins and its volatility state.                               *)
Market == [active : Bins, x : [Bins -> Nat], y : [Bins -> Nat]]
FeeState == [index : Bins, reference : Nat, accumulator : Nat]

(* Only the active bin may hold both tokens: bins above it hold X, bins    *)
(* below it hold Y.                                                        *)
Sided(m) ==
  \A b \in Bins : /\ b > m.active => m.y[b] = 0
                  /\ b < m.active => m.x[b] = 0

(* The inventory of one token over the whole ladder.                       *)
TotalOf(amounts) ==
  LET upTo[k \in 0 .. MaxBin - MinBin + 1] ==
        IF k = 0 THEN 0 ELSE upTo[k - 1] + amounts[MinBin + k - 1]
  IN  upTo[MaxBin - MinBin + 1]

ArrayOf(b) == b \div BinsPerArray
ArrayIndexes == {ArrayOf(b) : b \in Bins}

Step(forY) == IF forY THEN -1 ELSE 1
Available(m, forY) == IF forY THEN m.y[m.active] ELSE m.x[m.active]

-----------------------------------------------------------------------------
(* What one turn of the loop makes of a walk, arrays outside `present`     *)
(* being a gap.                                                            *)
Stop(w) == [w EXCEPT !.over = TRUE]

(* Mutant: the walk stays in the bin it has just emptied.                  *)
StayAfterFill(w, forY) == Stop(w)

MoveOn(w, forY) ==
  LET next == w.market.active + Step(forY)
  IN  IF w.left = 0 \/ next \notin Bins THEN Stop(w)
      ELSE [w EXCEPT !.market.active = next]

FillBin(w, f, r, forY) ==
  LET m == w.market
      b == m.active
  IN  [w EXCEPT
        !.market = [active |-> b,
                    x |-> [m.x EXCEPT ![b] = IF forY THEN @ + r.binIn ELSE @ - r.binOut],
                    y |-> [m.y EXCEPT ![b] = IF forY THEN @ - r.binOut ELSE @ + r.binIn]],
        !.fees = f, !.left = @ - r.amountIn, !.out = @ + r.amountOut, !.fee = @ + r.fee]

Turn(w, forY, present) ==
  LET b == w.market.active
      f == UpdateAccumulator(w.fees, b)
      r == SwapInBin(Available(w.market, forY), PriceOf[b], w.left, forY,
                     FeeRateForStep(f, StepOf[b]), FeeOnOutput(forY))
  IN  IF w.left = 0 \/ b \notin Bins \/ ArrayOf(b) \notin present THEN Stop(w)
      ELSE IF Available(w.market, forY) = 0 THEN MoveOn(w, forY)
      ELSE IF r = NoSwap THEN Stop([w EXCEPT !.fees = f])
      ELSE MoveOn(FillBin(w, f, r, forY), forY)

WalkLadder(m, f, elapsed, present, budget, forY) ==
  LET start == [market |-> m, fees |-> UpdateReferences(f, m.active, elapsed),
                left |-> budget, out |-> 0, fee |-> 0, over |-> FALSE]
      walk[n \in 0 .. MaxBinsPerSwap] ==
        IF n = 0 THEN start
        ELSE IF walk[n - 1].over THEN walk[n - 1] ELSE Turn(walk[n - 1], forY, present)
  IN  walk[MaxBinsPerSwap]
=============================================================================
