------------------------------- MODULE BinMath -------------------------------
(***************************************************************************)
(* The arithmetic of one bin, from taper-core's math/: liquidity and       *)
(* shares (liquidity.rs), the fee formulas (fee.rs) and a swap inside a    *)
(* fixed-price bin (swap.rs).  Prices, shares and fee growth are the fixed-*)
(* point integers the code keeps, with the scale a constant; every         *)
(* division rounds the way the code's does, and that is all the properties *)
(* are about.  Intermediate products are exact in the code (U256), so they *)
(* are here; a quotient that does not fit u64 is an error there and a      *)
(* FitsU64 guard here.                                                     *)
(***************************************************************************)
EXTENDS Integers

CONSTANTS
  One,            \* ONE_Q64: the fixed-point one
  GrowthScale,    \* 2^128: the scale of fee growth per share
  FeePrecision,   \* FEE_PRECISION
  BasisPointMax,  \* BASIS_POINT_MAX
  U64Max,         \* u64::MAX
  QuoteOnly       \* CollectFeeMode: TRUE is QuoteOnly, FALSE is InputToken

ASSUME ScaleAssumption ==
  /\ One \in Nat \ {0} /\ GrowthScale \in Nat \ {0}
  /\ FeePrecision \in Nat \ {0} /\ BasisPointMax \in Nat \ {0}
  /\ U64Max \in Nat \ {0}
  /\ QuoteOnly \in BOOLEAN

Least(a, b) == IF a <= b THEN a ELSE b
FitsU64(n) == n <= U64Max

(* Division rounded up: U256::div_u128_ceil.                               *)
DivCeil(a, b) == (a + b - 1) \div b

(***************************************************************************)
(* liquidity.rs                                                            *)
(***************************************************************************)
BinLiquidity(x, y, price) == price * x + One * y

(* Mutant: shares rounded up, in favour of the depositor.                  *)
SharesRoundedUp(liquidityIn, liquidity, supply) ==
  IF supply = 0 \/ liquidity = 0 THEN liquidityIn
  ELSE DivCeil(liquidityIn * supply, liquidity)

(* The 1:1 fast path for supply = liquidity gives what the division gives. *)
DepositShares(liquidityIn, liquidity, supply) ==
  IF supply = 0 \/ liquidity = 0 \/ supply = liquidity THEN liquidityIn
  ELSE (liquidityIn * supply) \div liquidity

(* Mutant: a partial burn rounds its payment up.                           *)
PaidRoundedUp(share, supply, amount) == DivCeil(share * amount, supply)

(* withdraw_amounts, for one of the two tokens.                            *)
WithdrawAmount(share, supply, amount) ==
  IF share = supply THEN amount ELSE (share * amount) \div supply

(***************************************************************************)
(* fee.rs                                                                  *)
(***************************************************************************)
FeeFromAmount(amount, rate) == DivCeil(amount * rate, FeePrecision)
FeeOnAmount(amount, rate) == DivCeil(amount * rate, FeePrecision - rate)
ProtocolCut(fee, protocolShare) == (fee * protocolShare) \div BasisPointMax

(* Mutant: growth rounded up promises more than the fee that was taken.    *)
GrowthRoundedUp(lpFee, supply) ==
  IF supply = 0 THEN 0 ELSE DivCeil(lpFee * GrowthScale, supply)

FeeGrowthDelta(lpFee, supply) ==
  IF supply = 0 THEN 0 ELSE (lpFee * GrowthScale) \div supply

AccruedFee(share, growthDelta) == (share * growthDelta) \div GrowthScale

(***************************************************************************)
(* swap.rs                                                                 *)
(***************************************************************************)
(* The token a swap's fee is charged in: CollectFeeMode::fee_on_output.    *)
FeeOnOutput(forY) == QuoteOnly /\ forY

(* What a net input buys at the bin's price, rounded down: output_for.     *)
OutputFor(netIn, price, swapForY) ==
  IF swapForY THEN (netIn * price) \div One ELSE (netIn * One) \div price

(* Mutant: the input that drains a bin, rounded down.                       *)
DrainRoundedDown(available, price, swapForY) ==
  Least(U64Max, OutputFor(available, price, ~swapForY))

(* max_net_in: the net input that drains the bin, saturated to u64.        *)
NetInToDrain(available, price, swapForY) ==
  Least(U64Max, IF swapForY THEN DivCeil(available * One, price)
                ELSE DivCeil(available * price, One))

NoSwap == [amountIn |-> 0, amountOut |-> 0, fee |-> 0, binIn |-> 0, binOut |-> 0]

(* Quote-only collection: the whole input enters, the fee leaves the output.*)
SwapFeeOnOutput(available, price, left, swapForY, rate) ==
  LET drain == NetInToDrain(available, price, swapForY)
      binIn == Least(left, drain)
      binOut == IF left >= drain THEN available
                ELSE Least(OutputFor(left, price, swapForY), available)
      fee == FeeFromAmount(binOut, rate)
  IN  IF binOut = 0 THEN NoSwap
      ELSE [amountIn |-> binIn, amountOut |-> binOut - fee, fee |-> fee,
            binIn |-> binIn, binOut |-> binOut]

SwapFeeOnInput(available, price, left, swapForY, rate) ==
  LET drain == NetInToDrain(available, price, swapForY)
      drainFee == FeeOnAmount(drain, rate)
      fee == FeeFromAmount(left, rate)
      out == Least(OutputFor(left - fee, price, swapForY), available)
  IN  IF FitsU64(drain + drainFee) /\ left >= drain + drainFee
      THEN [amountIn |-> drain + drainFee, amountOut |-> available, fee |-> drainFee,
            binIn |-> drain, binOut |-> available]
      ELSE IF out = 0 THEN NoSwap
      ELSE [amountIn |-> left, amountOut |-> out, fee |-> fee,
            binIn |-> left - fee, binOut |-> out]

SwapInBin(available, price, left, swapForY, rate, feeOnOutput) ==
  IF available = 0 \/ left = 0 THEN NoSwap
  ELSE IF feeOnOutput THEN SwapFeeOnOutput(available, price, left, swapForY, rate)
  ELSE SwapFeeOnInput(available, price, left, swapForY, rate)
=============================================================================
