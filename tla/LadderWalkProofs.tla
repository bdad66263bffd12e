--------------------------- MODULE LadderWalkProofs ---------------------------
(***************************************************************************)
(* What the bin's arithmetic guarantees, for every scale, price, rate and  *)
(* amount: each division errs on the pool's side, and by less than one.    *)
(* Then what a walk over the ladder is made of: the fee schedule, a turn,  *)
(* and the walk itself, which is a recursive function.  Last, what two     *)
(* walks have to do with each other: one with a smaller budget replays the *)
(* one with the larger (ShorterWalkFills), pools it cannot tell apart are  *)
(* walked alike (WalkTellsNotApart), and one that pays lower fees leads    *)
(* the other turn by turn (WaitingBuysNoLess).                             *)
(*                                                                         *)
(* The lemmas up to SwapIsFair are about BinMath alone; BinLedgerProofs    *)
(* rests on those.                                                         *)
(***************************************************************************)
EXTENDS LadderWalk, WellFoundedInduction, TLAPS

(* Division of naturals, as the two bounds that define it.                 *)
LEMMA Floor ==
  ASSUME NEW a \in Nat, NEW b \in Nat \ {0}
  PROVE  /\ a \div b \in Nat
         /\ (a \div b) * b <= a
         /\ a < (a \div b) * b + b
  OBVIOUS

LEMMA Ceil ==
  ASSUME NEW a \in Nat, NEW b \in Nat \ {0}
  PROVE  /\ DivCeil(a, b) \in Nat
         /\ a <= DivCeil(a, b) * b
         /\ DivCeil(a, b) * b < a + b
<1>1. a + b - 1 \in Nat
  OBVIOUS
<1>2. QED
  BY <1>1, Floor DEF DivCeil

LEMMA Products == \A a, b \in Nat : a * b \in Nat
  OBVIOUS

(* A smaller factor makes a smaller product, and a smaller product of a    *)
(* positive factor comes from a smaller factor.                            *)
LEMMA Monotone ==
  ASSUME NEW a \in Nat, NEW b \in Nat, NEW c \in Nat
  PROVE  /\ a <= b => a * c <= b * c
         /\ c > 0 /\ a * c < b * c => a < b
         /\ c > 0 /\ a * c <= b * c => a <= b
  OBVIOUS

(* A fee is at most the amount it is taken from.                           *)
LEMMA FeeWithinAmount ==
  ASSUME NEW n \in Nat, NEW rate \in 0 .. FeePrecision - 1
  PROVE  FeeFromAmount(n, rate) \in 0 .. n
<1>1. /\ n * rate \in Nat /\ rate \in Nat /\ FeePrecision \in Nat \ {0}
      /\ n * rate <= n * FeePrecision
  BY ScaleAssumption
<1> DEFINE fee == FeeFromAmount(n, rate)
<1>2. fee \in Nat /\ fee * FeePrecision < n * rate + FeePrecision
  BY <1>1, Ceil DEF FeeFromAmount
<1>3. fee * FeePrecision < (n + 1) * FeePrecision
  BY <1>1, <1>2
<1>4. fee < n + 1
  BY <1>1, <1>2, <1>3
<1>5. QED
  BY <1>2, <1>4

LEMMA FeeOnAmountNat ==
  ASSUME NEW n \in Nat, NEW rate \in 0 .. FeePrecision - 1
  PROVE  FeeOnAmount(n, rate) \in Nat
<1>1. n * rate \in Nat /\ FeePrecision - rate \in Nat \ {0}
  BY ScaleAssumption
<1>2. QED
  BY <1>1, Ceil DEF FeeOnAmount

(* The two halves of a fee are naturals that add up to it.                 *)
LEMMA CutWithinFee ==
  ASSUME NEW fee \in Nat, NEW cut \in 0 .. BasisPointMax
  PROVE  ProtocolCut(fee, cut) \in 0 .. fee
<1>1. fee * cut \in Nat /\ fee * cut <= fee * BasisPointMax
  BY ScaleAssumption
<1> DEFINE c == ProtocolCut(fee, cut)
<1>2. c \in Nat /\ c * BasisPointMax <= fee * cut
  BY <1>1, Floor, ScaleAssumption DEF ProtocolCut
<1>3. c * BasisPointMax <= fee * BasisPointMax
  BY <1>1, <1>2, ScaleAssumption
<1>4. c <= fee
  BY <1>2, <1>3, ScaleAssumption
<1>5. QED
  BY <1>2, <1>4

(* fee_growth_delta never books more than the fee: spread over the whole   *)
(* supply, the growth is worth at most what was taken.                     *)
LEMMA GrowthWithinFee ==
  ASSUME NEW lpFee \in Nat, NEW supply \in Nat
  PROVE  /\ FeeGrowthDelta(lpFee, supply) \in Nat
         /\ supply * FeeGrowthDelta(lpFee, supply) <= lpFee * GrowthScale
<1>1. lpFee * GrowthScale \in Nat
  BY ScaleAssumption
<1>2. CASE supply = 0
  BY <1>1, <1>2 DEF FeeGrowthDelta
<1>3. CASE supply > 0
  <2> DEFINE q == (lpFee * GrowthScale) \div supply
  <2>1. q \in Nat /\ q * supply <= lpFee * GrowthScale
    BY <1>1, <1>3, Floor
  <2>2. supply * q = q * supply
    BY <2>1
  <2>3. QED
    BY <1>3, <2>1, <2>2 DEF FeeGrowthDelta
<1>4. QED
  BY <1>2, <1>3

(* accrued_fee never pays more than the shares' part of the growth.        *)
LEMMA AccruedWithinGrowth ==
  ASSUME NEW s \in Nat, NEW d \in Nat
  PROVE  /\ AccruedFee(s, d) \in Nat
         /\ AccruedFee(s, d) * GrowthScale <= s * d
  BY Products, Floor, ScaleAssumption DEF AccruedFee

(* More growth never accrues less, and none accrues nothing.               *)
LEMMA AccruedGrows ==
  ASSUME NEW s \in Nat, NEW d \in Nat, NEW e \in Nat, d <= e
  PROVE  AccruedFee(s, d) <= AccruedFee(s, e) /\ AccruedFee(s, 0) = 0
<1> DEFINE a == AccruedFee(s, d)
           b == AccruedFee(s, e)
<1>1. s * d \in Nat /\ s * e \in Nat /\ s * d <= s * e /\ s * 0 = 0
  OBVIOUS
<1>2. /\ a \in Nat /\ a * GrowthScale <= s * d
      /\ b \in Nat /\ s * e < b * GrowthScale + GrowthScale
  BY <1>1, Floor, ScaleAssumption DEF AccruedFee
<1>3. AccruedFee(s, 0) = 0
  BY <1>1, ScaleAssumption DEF AccruedFee
<1> HIDE DEF a, b
<1>4. a * GrowthScale < (b + 1) * GrowthScale
  BY <1>1, <1>2, ScaleAssumption
<1>5. a < b + 1
  BY <1>2, <1>4, Monotone, ScaleAssumption
<1>6. QED
  BY <1>2, <1>3, <1>5 DEF a, b

(* A burn is paid at most its part of the bin, and all of it only when it  *)
(* burns everything.                                                       *)
LEMMA WithdrawalWithinShare ==
  ASSUME NEW s \in Nat, NEW supply \in Nat \ {0}, NEW n \in Nat, s <= supply
  PROVE  /\ WithdrawAmount(s, supply, n) \in 0 .. n
         /\ WithdrawAmount(s, supply, n) * supply <= s * n
         /\ s < supply /\ n > 0 => WithdrawAmount(s, supply, n) < n
<1>1. CASE s = supply
  BY <1>1 DEF WithdrawAmount
<1>2. CASE s < supply
  <2> DEFINE w == (s * n) \div supply
  <2>1. /\ s * n \in Nat /\ w \in Nat /\ w * supply <= s * n
    BY Products, Floor
  <2>2. w * supply <= n * supply
    BY <1>2, <2>1
  <2>3. w <= n
    BY <2>1, <2>2
  <2>4. n > 0 => w < n
    <3> SUFFICES ASSUME n > 0 PROVE w < n
      OBVIOUS
    <3>1. w * supply < n * supply
      BY <1>2, <2>1
    <3>2. QED
      BY <2>1, <3>1
  <2>5. QED
    BY <1>2, <2>1, <2>3, <2>4 DEF WithdrawAmount
<1>3. QED
  BY <1>1, <1>2

-----------------------------------------------------------------------------
(***************************************************************************)
(* A swap inside the bin.                                                  *)
(***************************************************************************)
(* At the bin's price, `paid` is worth at least `got`.                     *)
Covers(paid, got, price, swapForY) ==
  IF swapForY THEN got * One <= paid * price ELSE got * price <= paid * One

LEMMA OutputIsCovered ==
  ASSUME NEW netIn \in Nat, NEW price \in Nat \ {0}, NEW swapForY \in BOOLEAN,
         NEW got \in Nat, got <= OutputFor(netIn, price, swapForY)
  PROVE  Covers(netIn, got, price, swapForY)
<1>1. CASE swapForY
  <2> DEFINE out == (netIn * price) \div One
  <2>1. out \in Nat /\ out * One <= netIn * price
    BY Products, Floor, ScaleAssumption
  <2>2. got * One <= out * One
    BY <1>1, <2>1, ScaleAssumption DEF OutputFor
  <2>3. QED
    BY <1>1, <2>1, <2>2, Products, ScaleAssumption DEF Covers
<1>2. CASE ~swapForY
  <2> DEFINE out == (netIn * One) \div price
  <2>1. out \in Nat /\ out * price <= netIn * One
    BY Products, Floor, ScaleAssumption
  <2>2. got * price <= out * price
    BY <1>2, <2>1 DEF OutputFor
  <2>3. QED
    BY <1>2, <2>1, <2>2, Products, ScaleAssumption DEF Covers
<1>3. QED
  BY <1>1, <1>2

LEMMA OutputNat ==
  ASSUME NEW netIn \in Nat, NEW price \in Nat \ {0}, NEW swapForY \in BOOLEAN
  PROVE  OutputFor(netIn, price, swapForY) \in Nat
  BY Products, Floor, ScaleAssumption DEF OutputFor

(* Short of saturation, the input that drains the bin pays for all of it.  *)
LEMMA DrainIsCovered ==
  ASSUME NEW available \in Nat, NEW price \in Nat \ {0}, NEW swapForY \in BOOLEAN
  PROVE  LET drain == NetInToDrain(available, price, swapForY)
         IN  /\ drain \in 0 .. U64Max
             /\ drain < U64Max => Covers(drain, available, price, swapForY)
<1> DEFINE need == IF swapForY THEN DivCeil(available * One, price)
                   ELSE DivCeil(available * price, One)
<1>1. need \in Nat /\ Covers(need, available, price, swapForY)
  BY Products, Ceil, ScaleAssumption DEF Covers
<1>2. NetInToDrain(available, price, swapForY) = Least(U64Max, need)
  BY DEF NetInToDrain
<1>3. QED
  BY <1>1, <1>2, ScaleAssumption DEF Least

(* What a swap in one bin comes to: it takes no more input than offered    *)
(* and no more output than is there, the fee is exactly the difference     *)
(* between the trader's side and the bin's, and, for a trader who brings   *)
(* less than u64::MAX, what enters the bin covers what leaves it.          *)
FairFill(s, available, price, left, swapForY, feeOnOutput) ==
  /\ s \in [amountIn : Nat, amountOut : Nat, fee : Nat, binIn : Nat, binOut : Nat]
  /\ s.amountIn <= left /\ s.binOut <= available
  /\ IF feeOnOutput THEN s.amountIn = s.binIn /\ s.amountOut + s.fee = s.binOut
     ELSE s.amountIn = s.binIn + s.fee /\ s.amountOut = s.binOut
  /\ left < U64Max => Covers(s.binIn, s.binOut, price, swapForY)

LEMMA NoSwapIsFair ==
  ASSUME NEW available \in Nat, NEW price \in Nat \ {0}, NEW left \in Nat,
         NEW swapForY \in BOOLEAN, NEW feeOnOutput \in BOOLEAN
  PROVE  FairFill(NoSwap, available, price, left, swapForY, feeOnOutput)
  BY ScaleAssumption DEF FairFill, NoSwap, Covers

LEMMA OutputFeeIsFair ==
  ASSUME NEW available \in Nat, NEW price \in Nat \ {0}, NEW left \in Nat,
         NEW swapForY \in BOOLEAN, NEW rate \in 0 .. FeePrecision - 1
  PROVE  FairFill(SwapFeeOnOutput(available, price, left, swapForY, rate),
                  available, price, left, swapForY, TRUE)
<1> DEFINE drain == NetInToDrain(available, price, swapForY)
           binIn == Least(left, drain)
           binOut == IF left >= drain THEN available
                     ELSE Least(OutputFor(left, price, swapForY), available)
           fee == FeeFromAmount(binOut, rate)
           fill == [amountIn |-> binIn, amountOut |-> binOut - fee, fee |-> fee,
                    binIn |-> binIn, binOut |-> binOut]
<1>1. left \in Nat /\ U64Max \in Nat
  BY ScaleAssumption
<1>2. drain \in Nat /\ (drain < U64Max => Covers(drain, available, price, swapForY))
  BY DrainIsCovered, ScaleAssumption
<1>3. OutputFor(left, price, swapForY) \in Nat
  BY <1>1, OutputNat
<1>4. /\ binIn \in Nat /\ binIn <= left
      /\ binOut \in Nat /\ binOut <= available
  BY <1>1, <1>2, <1>3 DEF Least
<1>5. ASSUME left < U64Max PROVE Covers(binIn, binOut, price, swapForY)
  <2>1. CASE left >= drain
    <3>1. binIn = drain /\ binOut = available /\ drain < U64Max
      BY <1>1, <1>2, <1>5, <2>1 DEF Least
    <3>2. QED
      BY <1>2, <3>1
  <2>2. CASE left < drain
    <3>1. binIn = left /\ binOut <= OutputFor(left, price, swapForY)
      BY <1>1, <1>2, <1>3, <2>2 DEF Least
    <3>2. QED
      BY <1>1, <1>4, <3>1, OutputIsCovered
  <2>3. QED
    BY <1>1, <1>2, <2>1, <2>2
<1>6. fee \in 0 .. binOut
  BY <1>4, FeeWithinAmount
<1> HIDE DEF drain, binIn, binOut, fee
<1>7. FairFill(fill, available, price, left, swapForY, TRUE)
  BY <1>4, <1>5, <1>6 DEF FairFill
<1>8. SwapFeeOnOutput(available, price, left, swapForY, rate) =
        IF binOut = 0 THEN NoSwap ELSE fill
  BY DEF SwapFeeOnOutput, drain, binIn, binOut, fee
<1>9. QED
  BY <1>1, <1>7, <1>8, NoSwapIsFair

LEMMA InputFeeIsFair ==
  ASSUME NEW available \in Nat, NEW price \in Nat \ {0}, NEW left \in Nat,
         NEW swapForY \in BOOLEAN, NEW rate \in 0 .. FeePrecision - 1
  PROVE  FairFill(SwapFeeOnInput(available, price, left, swapForY, rate),
                  available, price, left, swapForY, FALSE)
<1> DEFINE drain == NetInToDrain(available, price, swapForY)
           drainFee == FeeOnAmount(drain, rate)
           fee == FeeFromAmount(left, rate)
           out == Least(OutputFor(left - fee, price, swapForY), available)
           full == [amountIn |-> drain + drainFee, amountOut |-> available,
                    fee |-> drainFee, binIn |-> drain, binOut |-> available]
           part == [amountIn |-> left, amountOut |-> out, fee |-> fee,
                    binIn |-> left - fee, binOut |-> out]
<1>1. left \in Nat /\ U64Max \in Nat
  BY ScaleAssumption
<1>2. drain \in Nat /\ (drain < U64Max => Covers(drain, available, price, swapForY))
  BY DrainIsCovered, ScaleAssumption
<1>3. drainFee \in Nat
  BY <1>2, FeeOnAmountNat
<1>4. fee \in 0 .. left
  BY <1>1, FeeWithinAmount
<1>5. left - fee \in Nat
  BY <1>1, <1>4
<1>6. /\ out \in Nat /\ out <= available
      /\ Covers(left - fee, out, price, swapForY)
  BY <1>5, OutputNat, OutputIsCovered DEF Least
<1> HIDE DEF drain, drainFee, fee, out
<1>7. ASSUME left >= drain + drainFee
      PROVE  FairFill(full, available, price, left, swapForY, FALSE)
  <2>1. left < U64Max => Covers(drain, available, price, swapForY)
    BY <1>1, <1>2, <1>3, <1>7
  <2>2. QED
    BY <1>1, <1>2, <1>3, <1>7, <2>1 DEF FairFill
<1>8. FairFill(part, available, price, left, swapForY, FALSE)
  BY <1>1, <1>4, <1>5, <1>6 DEF FairFill
<1>9. SwapFeeOnInput(available, price, left, swapForY, rate) =
        IF FitsU64(drain + drainFee) /\ left >= drain + drainFee THEN full
        ELSE IF out = 0 THEN NoSwap ELSE part
  BY DEF SwapFeeOnInput, drain, drainFee, fee, out
<1>10. QED
  BY <1>1, <1>7, <1>8, <1>9, NoSwapIsFair

(* A swap in one bin is fair, whichever side its fee is taken from.        *)
THEOREM SwapIsFair ==
  ASSUME NEW available \in Nat, NEW price \in Nat \ {0}, NEW left \in Nat,
         NEW swapForY \in BOOLEAN, NEW rate \in 0 .. FeePrecision - 1,
         NEW feeOnOutput \in BOOLEAN
  PROVE  FairFill(SwapInBin(available, price, left, swapForY, rate, feeOnOutput),
                  available, price, left, swapForY, feeOnOutput)
<1>1. left \in Nat
  BY ScaleAssumption
<1>2. CASE available = 0 \/ left = 0
  BY <1>1, <1>2, NoSwapIsFair DEF SwapInBin
<1>3. CASE ~(available = 0 \/ left = 0) /\ feeOnOutput
  <2>1. SwapInBin(available, price, left, swapForY, rate, feeOnOutput) =
          SwapFeeOnOutput(available, price, left, swapForY, rate)
    BY <1>3 DEF SwapInBin
  <2>2. QED
    BY <1>3, <2>1, OutputFeeIsFair
<1>4. CASE ~(available = 0 \/ left = 0) /\ ~feeOnOutput
  <2>1. SwapInBin(available, price, left, swapForY, rate, feeOnOutput) =
          SwapFeeOnInput(available, price, left, swapForY, rate)
    BY <1>4 DEF SwapInBin
  <2>2. QED
    BY <1>4, <2>1, InputFeeIsFair
<1>5. QED
  BY <1>2, <1>3, <1>4

(* A fill that is not the no-op takes something out of the bin.            *)
LEMMA FillTakesOutput ==
  ASSUME NEW available, NEW price, NEW left, NEW swapForY, NEW rate, NEW feeOnOutput,
         SwapInBin(available, price, left, swapForY, rate, feeOnOutput) # NoSwap
  PROVE  SwapInBin(available, price, left, swapForY, rate, feeOnOutput).binOut # 0
  BY DEF SwapInBin, SwapFeeOnOutput, SwapFeeOnInput

-----------------------------------------------------------------------------
(***************************************************************************)
(* The fee schedule.                                                       *)
(***************************************************************************)
LEMMA DistanceNat == \A a, b \in Int : Distance(a, b) \in Nat
  BY DEF Distance

LEMMA ReferencesTyped ==
  ASSUME NEW f \in FeeState, NEW active \in Bins, NEW elapsed \in Nat
  PROVE  UpdateReferences(f, active, elapsed) \in FeeState
<1>1. /\ f.accumulator \in Nat /\ ReductionFactor \in Nat
      /\ f.accumulator * ReductionFactor \in Nat
  BY FeeAssumption, ScaleAssumption DEF FeeState
<1>2. (f.accumulator * ReductionFactor) \div BasisPointMax \in Nat
  BY <1>1, Floor, ScaleAssumption
<1>3. QED
  BY <1>2 DEF UpdateReferences, FeeState

LEMMA AccumulatorTyped ==
  ASSUME NEW f \in FeeState, NEW b \in Bins
  PROVE  UpdateAccumulator(f, b) \in FeeState
<1>1. f.reference \in Nat /\ f.index \in Int /\ b \in Int
  BY LadderAssumption DEF FeeState, Bins
<1>2. Distance(b, f.index) \in Nat
  BY <1>1, DistanceNat
<1>3. Distance(b, f.index) * VolatilityUnit \in Nat
  BY <1>2, FeeAssumption
<1>4. Least(f.reference + Distance(b, f.index) * VolatilityUnit, MaxVolatility) \in Nat
  BY <1>1, <1>3, FeeAssumption DEF Least
<1>5. QED
  BY <1>4 DEF UpdateAccumulator, FeeState

(* The total rate never reaches FEE_PRECISION.                             *)
LEMMA RateTyped ==
  ASSUME NEW f \in FeeState, NEW step \in Nat
  PROVE  FeeRateForStep(f, step) \in 0 .. FeePrecision - 1
<1> DEFINE moved == f.accumulator * step
<1>1. moved \in Nat
  BY DEF FeeState
<1> HIDE DEF moved
<1>2. FeeControl * (moved * moved) \in Nat
  BY <1>1, FeeAssumption
<1>3. VariableFeeRate(f.accumulator, step) \in Nat
  BY <1>2, Ceil, FeeAssumption DEF VariableFeeRate, moved
<1>4. BaseFactor * step * BaseScale \in Nat
  BY FeeAssumption
<1>5. BaseFeeRate(step) \in Nat
  BY <1>4, Floor DEF BaseFeeRate
<1>6. QED
  BY <1>3, <1>5, FeeAssumption, ScaleAssumption DEF FeeRateForStep, Least

-----------------------------------------------------------------------------
(***************************************************************************)
(* One bin of the walk.                                                    *)
(***************************************************************************)
(* Input is left over only when the bin was drained.                       *)
LEMMA LeftoverMeansDrained ==
  ASSUME NEW available \in Nat, NEW price \in Nat \ {0}, NEW remaining \in Nat,
         NEW swapForY \in BOOLEAN, NEW rate, NEW feeOnOutput \in BOOLEAN,
         SwapInBin(available, price, remaining, swapForY, rate, feeOnOutput) # NoSwap,
         remaining
           - SwapInBin(available, price, remaining, swapForY, rate, feeOnOutput).amountIn > 0
  PROVE  SwapInBin(available, price, remaining, swapForY, rate, feeOnOutput).binOut = available
<1> DEFINE drain == NetInToDrain(available, price, swapForY)
           onOutput == SwapFeeOnOutput(available, price, remaining, swapForY, rate)
           onInput == SwapFeeOnInput(available, price, remaining, swapForY, rate)
           fill == SwapInBin(available, price, remaining, swapForY, rate, feeOnOutput)
<1>1. remaining \in Nat /\ drain \in Nat
  BY ScaleAssumption, DrainIsCovered
<1> HIDE DEF drain
<1>2. remaining - remaining = 0
  BY <1>1
<1>3. fill = IF feeOnOutput THEN onOutput ELSE onInput
  BY DEF SwapInBin
<1>4. CASE feeOnOutput
  <2>1. onOutput.amountIn = Least(remaining, drain)
    BY <1>3, <1>4 DEF SwapFeeOnOutput, drain
  <2>2. remaining >= drain
    BY <1>1, <1>2, <1>3, <1>4, <2>1 DEF Least
  <2>3. QED
    BY <1>3, <1>4, <2>2 DEF SwapFeeOnOutput, drain
<1>5. CASE ~feeOnOutput
  BY <1>2, <1>3, <1>5 DEF SwapFeeOnInput
<1>6. QED
  BY <1>4, <1>5

(* A fill that is not the no-op costs something.                           *)
LEMMA FillTakesInput ==
  ASSUME NEW available \in Nat, NEW price \in Nat \ {0}, NEW remaining \in Nat,
         NEW swapForY \in BOOLEAN, NEW rate \in 0 .. FeePrecision - 1,
         NEW feeOnOutput \in BOOLEAN,
         SwapInBin(available, price, remaining, swapForY, rate, feeOnOutput) # NoSwap
  PROVE  SwapInBin(available, price, remaining, swapForY, rate, feeOnOutput).amountIn > 0
<1> DEFINE drain == NetInToDrain(available, price, swapForY)
           drainFee == FeeOnAmount(drain, rate)
<1>1. available > 0 /\ remaining > 0
  BY DEF SwapInBin
<1>2. drain \in Nat /\ drain > 0
  <2>1. drain \in 0 .. U64Max /\ (drain < U64Max => Covers(drain, available, price, swapForY))
    BY DrainIsCovered
  <2>2. available * One > 0 /\ available * price > 0
    BY <1>1, ScaleAssumption
  <2>3. ~Covers(0, available, price, swapForY)
    BY <2>2, ScaleAssumption DEF Covers
  <2> HIDE DEF drain
  <2>4. QED
    BY <2>1, <2>3, ScaleAssumption
<1>3. drainFee \in Nat
  BY <1>2, FeeOnAmountNat
<1>4. CASE feeOnOutput
  <2>1. SwapFeeOnOutput(available, price, remaining, swapForY, rate) # NoSwap
    BY <1>1, <1>4 DEF SwapInBin
  <2>2. SwapFeeOnOutput(available, price, remaining, swapForY, rate).amountIn
          = Least(remaining, drain)
    BY <2>1 DEF SwapFeeOnOutput
  <2> HIDE DEF drain
  <2>3. QED
    BY <1>1, <1>2, <1>4, <2>2 DEF SwapInBin, Least
<1>5. CASE ~feeOnOutput
  <2>1. SwapFeeOnInput(available, price, remaining, swapForY, rate) # NoSwap
    BY <1>1, <1>5 DEF SwapInBin
  <2>2. SwapFeeOnInput(available, price, remaining, swapForY, rate).amountIn
          \in {drain + drainFee, remaining}
    BY <2>1 DEF SwapFeeOnInput
  <2> HIDE DEF drain, drainFee
  <2>3. QED
    BY <1>1, <1>2, <1>3, <1>5, <2>2 DEF SwapInBin
<1>6. QED
  BY <1>4, <1>5

(* A bin that is drained with input left over gives the same fill to any   *)
(* smaller input that still covers what the fill consumed.                 *)
LEMMA SmallerFillsSame ==
  ASSUME NEW available \in Nat, NEW price \in Nat \ {0}, NEW remaining \in Nat,
         NEW less \in Nat \ {0}, NEW swapForY \in BOOLEAN,
         NEW rate \in 0 .. FeePrecision - 1, NEW feeOnOutput \in BOOLEAN,
         SwapInBin(available, price, remaining, swapForY, rate, feeOnOutput) # NoSwap,
         remaining
           - SwapInBin(available, price, remaining, swapForY, rate, feeOnOutput).amountIn > 0,
         less <= remaining,
         SwapInBin(available, price, remaining, swapForY, rate, feeOnOutput).amountIn <= less
  PROVE  SwapInBin(available, price, less, swapForY, rate, feeOnOutput) =
           SwapInBin(available, price, remaining, swapForY, rate, feeOnOutput)
<1> DEFINE drain == NetInToDrain(available, price, swapForY)
           drainFee == FeeOnAmount(drain, rate)
           fill(n) == SwapInBin(available, price, n, swapForY, rate, feeOnOutput)
<1>1. drain \in Nat
  BY DrainIsCovered
<1>2. drainFee \in Nat
  BY <1>1, FeeOnAmountNat
<1>3. available # 0 /\ remaining # 0
  BY DEF SwapInBin
<1> HIDE DEF drain, drainFee
<1>4. CASE feeOnOutput
  <2> DEFINE onOutput(n) == SwapFeeOnOutput(available, price, n, swapForY, rate)
             fee == FeeFromAmount(available, rate)
             drained == [amountIn |-> drain, amountOut |-> available - fee, fee |-> fee,
                         binIn |-> drain, binOut |-> available]
  <2>1. fill(remaining) = onOutput(remaining) /\ fill(less) = onOutput(less)
    BY <1>3, <1>4 DEF SwapInBin
  <2>2. onOutput(remaining) # NoSwap
    BY <2>1
  <2>3. onOutput(remaining).amountIn = Least(remaining, drain)
    BY <2>2 DEF SwapFeeOnOutput, drain
  <2>4. remaining > drain /\ less >= drain
    BY <1>1, <2>1, <2>3 DEF Least
  <2>5. ASSUME NEW n \in Nat, n >= drain PROVE onOutput(n) = drained
    BY <1>1, <1>3, <2>5 DEF SwapFeeOnOutput, drain, Least
  <2>6. remaining >= drain /\ less \in Nat
    BY <1>1, <2>4
  <2> HIDE DEF drained, onOutput
  <2>7. onOutput(remaining) = drained /\ onOutput(less) = drained
    BY <2>4, <2>5, <2>6
  <2>8. QED
    BY <2>1, <2>7
<1>5. CASE ~feeOnOutput
  <2> DEFINE onInput(n) == SwapFeeOnInput(available, price, n, swapForY, rate)
             drained == [amountIn |-> drain + drainFee, amountOut |-> available,
                         fee |-> drainFee, binIn |-> drain, binOut |-> available]
  <2>1. fill(remaining) = onInput(remaining) /\ fill(less) = onInput(less)
    BY <1>3, <1>5 DEF SwapInBin
  <2>2. FitsU64(drain + drainFee) /\ remaining >= drain + drainFee
    <3>1. onInput(remaining) # NoSwap /\ onInput(remaining).amountIn # remaining
      BY <2>1
    <3>2. QED
      BY <3>1 DEF SwapFeeOnInput, drain, drainFee
  <2>3. onInput(remaining) = drained
    BY <2>2 DEF SwapFeeOnInput, drain, drainFee
  <2>4. less >= drain + drainFee
    BY <1>1, <1>2, <2>1, <2>3
  <2>5. onInput(less) = drained
    BY <2>2, <2>4 DEF SwapFeeOnInput, drain, drainFee
  <2>6. QED
    BY <2>1, <2>3, <2>5
<1>6. QED
  BY <1>4, <1>5

-----------------------------------------------------------------------------
(***************************************************************************)
(* One turn of walk_ladder.                                                *)
(***************************************************************************)
WalkState == [market : Market, fees : FeeState, left : Nat, out : Nat, fee : Nat,
              over : BOOLEAN]

(* The fill a turn would make.                                             *)
TurnFees(w) == UpdateAccumulator(w.fees, w.market.active)
TurnFill(w, forY) ==
  SwapInBin(Available(w.market, forY), PriceOf[w.market.active], w.left, forY,
            FeeRateForStep(TurnFees(w), StepOf[w.market.active]), FeeOnOutput(forY))

LEMMA WalkFields ==
  ASSUME NEW w \in WalkState, NEW forY \in BOOLEAN
  PROVE  /\ w.market \in Market /\ w.market.active \in Bins
         /\ w.market.x \in [Bins -> Nat] /\ w.market.y \in [Bins -> Nat]
         /\ w.market.x[w.market.active] \in Nat /\ w.market.y[w.market.active] \in Nat
         /\ Available(w.market, forY) \in Nat
         /\ PriceOf[w.market.active] \in Nat \ {0}
         /\ w.left \in Nat /\ w.out \in Nat /\ w.fee \in Nat
         /\ TurnFees(w) \in FeeState
         /\ FeeRateForStep(TurnFees(w), StepOf[w.market.active]) \in 0 .. FeePrecision - 1
         /\ FeeOnOutput(forY) \in BOOLEAN
<1>1. /\ w.market \in Market /\ w.fees \in FeeState
      /\ w.left \in Nat /\ w.out \in Nat /\ w.fee \in Nat
  BY DEF WalkState
<1>2. w.market.active \in Bins
  BY <1>1 DEF Market
<1>3. /\ w.market.x \in [Bins -> Nat] /\ w.market.y \in [Bins -> Nat]
      /\ w.market.x[w.market.active] \in Nat /\ w.market.y[w.market.active] \in Nat
  BY <1>1, <1>2 DEF Market
<1>4. TurnFees(w) \in FeeState
  BY <1>1, <1>2, AccumulatorTyped DEF TurnFees
<1>5. StepOf[w.market.active] \in Nat /\ PriceOf[w.market.active] \in Nat \ {0}
  BY <1>2, LadderAssumption
<1>6. FeeRateForStep(TurnFees(w), StepOf[w.market.active]) \in 0 .. FeePrecision - 1
  BY <1>4, <1>5, RateTyped
<1>7. FeeOnOutput(forY) \in BOOLEAN
  BY ScaleAssumption DEF FeeOnOutput
<1>8. QED
  BY <1>1, <1>2, <1>3, <1>4, <1>5, <1>6, <1>7 DEF Available

LEMMA TurnFillIsFair ==
  ASSUME NEW w \in WalkState, NEW forY \in BOOLEAN
  PROVE  FairFill(TurnFill(w, forY), Available(w.market, forY),
                  PriceOf[w.market.active], w.left, forY, FeeOnOutput(forY))
<1>1. w.left \in Nat
  BY DEF WalkState
<1>2. QED
  BY <1>1, WalkFields, SwapIsFair DEF TurnFill

(* The four things a turn may do, in the order the loop tries them.        *)
Halted(w, present) ==
  w.left = 0 \/ w.market.active \notin Bins \/ ArrayOf(w.market.active) \notin present

LEMMA TurnCases ==
  ASSUME NEW w, NEW forY, NEW present
  PROVE  Turn(w, forY, present) =
           IF Halted(w, present) THEN Stop(w)
           ELSE IF Available(w.market, forY) = 0 THEN MoveOn(w, forY)
           ELSE IF TurnFill(w, forY) = NoSwap THEN Stop([w EXCEPT !.fees = TurnFees(w)])
           ELSE MoveOn(FillBin(w, TurnFees(w), TurnFill(w, forY), forY), forY)
  BY Zenon DEF Turn, Halted, TurnFill, TurnFees

LEMMA StopFields ==
  ASSUME NEW w \in WalkState
  PROVE  /\ Stop(w) \in WalkState
         /\ Stop(w).market = w.market /\ Stop(w).fees = w.fees /\ Stop(w).left = w.left
         /\ Stop(w).out = w.out /\ Stop(w).fee = w.fee /\ Stop(w).over
  BY DEF Stop, WalkState

LEMMA MoveOnFields ==
  ASSUME NEW w \in WalkState, NEW forY \in BOOLEAN
  PROVE  /\ MoveOn(w, forY) \in WalkState
         /\ MoveOn(w, forY).market.x = w.market.x /\ MoveOn(w, forY).market.y = w.market.y
         /\ MoveOn(w, forY).market.active =
              IF w.left = 0 \/ w.market.active + Step(forY) \notin Bins
              THEN w.market.active ELSE w.market.active + Step(forY)
         /\ MoveOn(w, forY).fees = w.fees /\ MoveOn(w, forY).left = w.left
         /\ MoveOn(w, forY).out = w.out /\ MoveOn(w, forY).fee = w.fee
         /\ MoveOn(w, forY).over =
              (w.over \/ w.left = 0 \/ w.market.active + Step(forY) \notin Bins)
<1>1. CASE w.left = 0 \/ w.market.active + Step(forY) \notin Bins
  BY <1>1, StopFields, WalkFields DEF MoveOn
<1>2. CASE ~(w.left = 0 \/ w.market.active + Step(forY) \notin Bins)
  <2> DEFINE n == w.market.active + Step(forY)
  <2>1. MoveOn(w, forY) = [w EXCEPT !.market.active = n] /\ n \in Bins
    BY <1>2 DEF MoveOn
  <2> HIDE DEF n
  <2>2. QED
    BY <1>2, <2>1 DEF WalkState, Market, n
<1>3. QED
  BY <1>1, <1>2

LEMMA FillBinFields ==
  ASSUME NEW w \in WalkState, NEW forY \in BOOLEAN
  PROVE  LET r == TurnFill(w, forY)
             v == FillBin(w, TurnFees(w), r, forY)
             b == w.market.active
         IN  /\ v \in WalkState
             /\ r.amountIn \in Nat /\ r.amountOut \in Nat /\ r.fee \in Nat
             /\ r.binIn \in Nat /\ r.binOut \in Nat /\ r.binOut <= Available(w.market, forY)
             /\ v.left = w.left - r.amountIn /\ v.left <= w.left
             /\ v.market.active = b
             /\ v.market.x = [w.market.x EXCEPT ![b] =
                                IF forY THEN w.market.x[b] + r.binIn
                                ELSE w.market.x[b] - r.binOut]
             /\ v.market.y = [w.market.y EXCEPT ![b] =
                                IF forY THEN w.market.y[b] - r.binOut
                                ELSE w.market.y[b] + r.binIn]
             /\ v.fees = TurnFees(w)
             /\ v.out = w.out + r.amountOut /\ v.fee = w.fee + r.fee /\ v.over = w.over
<1> DEFINE r == TurnFill(w, forY)
           b == w.market.active
           newX == IF forY THEN w.market.x[b] + r.binIn ELSE w.market.x[b] - r.binOut
           newY == IF forY THEN w.market.y[b] - r.binOut ELSE w.market.y[b] + r.binIn
           x == [w.market.x EXCEPT ![b] = newX]
           y == [w.market.y EXCEPT ![b] = newY]
           f == TurnFees(w)
           v == [market |-> [active |-> b, x |-> x, y |-> y], fees |-> f,
                 left |-> w.left - r.amountIn, out |-> w.out + r.amountOut,
                 fee |-> w.fee + r.fee, over |-> w.over]
<1>1. /\ r.amountIn \in Nat /\ r.amountOut \in Nat /\ r.fee \in Nat
      /\ r.binIn \in Nat /\ r.binOut \in Nat
      /\ r.amountIn <= w.left /\ r.binOut <= Available(w.market, forY)
  BY TurnFillIsFair DEF FairFill
<1>2. /\ b \in Bins /\ w.market.x \in [Bins -> Nat] /\ w.market.y \in [Bins -> Nat]
      /\ w.market.x[b] \in Nat /\ w.market.y[b] \in Nat
      /\ w.left \in Nat /\ w.out \in Nat /\ w.fee \in Nat /\ f \in FeeState
  BY WalkFields
<1>3. /\ w = [market |-> w.market, fees |-> w.fees, left |-> w.left, out |-> w.out,
              fee |-> w.fee, over |-> w.over]
      /\ w.market = [active |-> b, x |-> w.market.x, y |-> w.market.y]
      /\ w.over \in BOOLEAN
  BY DEF WalkState, Market
<1>4. FillBin(w, f, r, forY) = v
  <2> HIDE DEF r, f
  <2>1. FillBin(w, f, r, forY) =
          [w EXCEPT !.fees = f, !.left = w.left - r.amountIn,
                    !.out = w.out + r.amountOut, !.fee = w.fee + r.fee,
                    !.market = [active |-> b, x |-> x, y |-> y]]
    BY <1>3 DEF FillBin
  <2>2. QED
    BY <1>3, <2>1
<1>5. newX \in Nat /\ newY \in Nat
  <2> HIDE DEF r, b
  <2>1. QED
    BY <1>1, <1>2 DEF Available, b
<1>6. w.left - r.amountIn \in Nat /\ w.left - r.amountIn <= w.left
  <2> HIDE DEF r
  <2>1. QED
    BY <1>1, <1>2
<1> HIDE DEF r, f, newX, newY
<1>7. x \in [Bins -> Nat] /\ y \in [Bins -> Nat]
  BY <1>2, <1>5
<1>8. v \in WalkState
  BY <1>1, <1>2, <1>3, <1>6, <1>7 DEF WalkState, Market
<1>9. QED
  BY <1>1, <1>4, <1>6, <1>8 DEF r, f, newX, newY

(* A turn keeps the walk well formed and never gives input back.           *)
LEMMA TurnTyped ==
  ASSUME NEW w \in WalkState, NEW forY \in BOOLEAN, NEW present
  PROVE  /\ Turn(w, forY, present) \in WalkState
         /\ Turn(w, forY, present).left <= w.left
<1> DEFINE r == TurnFill(w, forY)
           stopped == [w EXCEPT !.fees = TurnFees(w)]
           filled == FillBin(w, TurnFees(w), r, forY)
<1>1. stopped \in WalkState /\ stopped.left = w.left
  BY WalkFields DEF WalkState
<1>2. filled \in WalkState /\ filled.left <= w.left
  BY FillBinFields
<1>3. w.left \in Nat
  BY DEF WalkState
<1> HIDE DEF r, stopped, filled
<1>4. /\ Stop(w) \in WalkState /\ Stop(w).left = w.left
      /\ Stop(stopped) \in WalkState /\ Stop(stopped).left = w.left
  BY <1>1, StopFields
<1>5. /\ MoveOn(w, forY) \in WalkState /\ MoveOn(w, forY).left = w.left
      /\ MoveOn(filled, forY) \in WalkState /\ MoveOn(filled, forY).left = filled.left
  BY <1>2, MoveOnFields
<1>6. Turn(w, forY, present) \in {Stop(w), Stop(stopped), MoveOn(w, forY), MoveOn(filled, forY)}
  BY TurnCases DEF r, stopped, filled
<1>7. QED
  BY <1>2, <1>3, <1>4, <1>5, <1>6

-----------------------------------------------------------------------------
(***************************************************************************)
(* The walk: MaxBinsPerSwap turns, or as many as it takes to be over.      *)
(***************************************************************************)
(* Induction over the naturals, stated of a set.                           *)
LEMMA Induction ==
  ASSUME NEW S \in SUBSET Nat, 0 \in S, \A n \in S : n + 1 \in S
  PROVE  S = Nat
<1> SUFFICES ASSUME Nat \ S # {} PROVE FALSE
  OBVIOUS
<1>1. PICK m \in Nat \ S : \A y \in Nat \ S : ~(<<y, m>> \in OpToRel(<, Nat))
  BY NatLessThanWellFounded, WFMin, Nat \ S \subseteq Nat
<1>2. \A y \in Nat \ S : ~(y < m)
  BY <1>1, Zenon DEF OpToRel
<1>3. m # 0 /\ m - 1 \in Nat
  OBVIOUS
<1>4. m - 1 \in S
  BY <1>2, <1>3
<1>5. QED
  BY <1>3, <1>4

Start(m, f, elapsed, budget) ==
  [market |-> m, fees |-> UpdateReferences(f, m.active, elapsed),
   left |-> budget, out |-> 0, fee |-> 0, over |-> FALSE]

(* w holds the states of a walk after 0 .. N turns.                        *)
After(v, forY, present) == IF v.over THEN v ELSE Turn(v, forY, present)
Walks(w, N, start, forY, present) ==
  w = [n \in 0 .. N |-> IF n = 0 THEN start
                        ELSE IF w[n - 1].over THEN w[n - 1]
                        ELSE Turn(w[n - 1], forY, present)]

LEMMA WalkExists ==
  ASSUME NEW start, NEW forY, NEW present
  PROVE  \A N \in Nat : \E w : Walks(w, N, start, forY, present)
<1> DEFINE S == {N \in Nat : \E w : Walks(w, N, start, forY, present)}
<1>1. 0 \in S
  <2>1. Walks([n \in 0 .. 0 |-> start], 0, start, forY, present)
    BY DEF Walks
  <2>2. QED
    BY <2>1
<1>2. ASSUME NEW N \in S PROVE N + 1 \in S
  <2>1. N \in Nat
    OBVIOUS
  <2>2. PICK w : Walks(w, N, start, forY, present)
    OBVIOUS
  <2> DEFINE v == [n \in 0 .. N + 1 |-> IF n \in 0 .. N THEN w[n] ELSE After(w[N], forY, present)]
  <2>3. w = [n \in 0 .. N |-> IF n = 0 THEN start ELSE After(w[n - 1], forY, present)]
    BY <2>2, Zenon DEF Walks, After
  <2>4. \A n \in 0 .. N + 1 : v[n] = IF n = 0 THEN start ELSE After(v[n - 1], forY, present)
    BY <2>1, <2>3
  <2>5. v = [n \in 0 .. N + 1 |-> IF n = 0 THEN start ELSE After(v[n - 1], forY, present)]
    <3> HIDE DEF v
    <3>1. v = [n \in 0 .. N + 1 |-> v[n]]
      BY DEF v
    <3>2. QED
      BY <2>4, <3>1, Zenon
  <2>6. Walks(v, N + 1, start, forY, present)
    <3> HIDE DEF v
    <3>1. QED
      BY <2>5, Zenon DEF Walks, After
  <2>7. QED
    BY <2>1, <2>6
<1>3. S \in SUBSET Nat
  OBVIOUS
<1> HIDE DEF S
<1>4. S = Nat
  BY <1>1, <1>2, <1>3, Induction
<1>5. QED
  BY <1>4 DEF S

(* The walk WalkLadder takes.                                              *)
Turns(m, f, elapsed, present, budget, forY) ==
  CHOOSE w : Walks(w, MaxBinsPerSwap, Start(m, f, elapsed, budget), forY, present)

LEMMA WalkIsItsTurns ==
  ASSUME NEW m, NEW f, NEW elapsed, NEW present, NEW budget, NEW forY
  PROVE  /\ Walks(Turns(m, f, elapsed, present, budget, forY), MaxBinsPerSwap,
                  Start(m, f, elapsed, budget), forY, present)
         /\ WalkLadder(m, f, elapsed, present, budget, forY) =
              Turns(m, f, elapsed, present, budget, forY)[MaxBinsPerSwap]
<1>1. MaxBinsPerSwap \in Nat
  BY LadderAssumption
<1>2. \E w : Walks(w, MaxBinsPerSwap, Start(m, f, elapsed, budget), forY, present)
  BY <1>1, WalkExists
<1>3. WalkLadder(m, f, elapsed, present, budget, forY) =
        Turns(m, f, elapsed, present, budget, forY)[MaxBinsPerSwap]
  BY Zenon DEF WalkLadder, Turns, Walks, Start
<1>4. QED
  BY <1>2, <1>3, Zenon DEF Turns

LEMMA WalkSteps ==
  ASSUME NEW N \in Nat, NEW w, NEW start, NEW forY, NEW present,
         Walks(w, N, start, forY, present)
  PROVE  /\ w[0] = start
         /\ \A n \in 0 .. N - 1 : w[n + 1] = After(w[n], forY, present)
<1>1. w = [n \in 0 .. N |-> IF n = 0 THEN start ELSE After(w[n - 1], forY, present)]
  BY Zenon DEF Walks, After
<1>2. QED
  BY <1>1

LEMMA StartTyped ==
  ASSUME NEW m \in Market, NEW f \in FeeState, NEW elapsed \in Nat, NEW budget \in Nat
  PROVE  /\ Start(m, f, elapsed, budget) \in WalkState
         /\ Start(m, f, elapsed, budget).left = budget
<1>1. UpdateReferences(f, m.active, elapsed) \in FeeState
  BY ReferencesTyped DEF Market
<1>2. QED
  BY <1>1 DEF Start, WalkState

(* Every state of a walk is well formed.                                   *)
LEMMA WalkTurnsTyped ==
  ASSUME NEW N \in Nat, NEW w, NEW start \in WalkState, NEW forY \in BOOLEAN, NEW present,
         Walks(w, N, start, forY, present)
  PROVE  \A n \in 0 .. N : w[n] \in WalkState /\ w[n].left <= start.left
<1> DEFINE S == {n \in Nat : n <= N => w[n] \in WalkState /\ w[n].left <= start.left}
<1>1. 0 \in S
  BY WalkSteps DEF WalkState
<1>2. ASSUME NEW n \in S PROVE n + 1 \in S
  <2> SUFFICES ASSUME n + 1 <= N
               PROVE  w[n + 1] \in WalkState /\ w[n + 1].left <= start.left
    OBVIOUS
  <2>1. n \in 0 .. N - 1 /\ w[n] \in WalkState /\ w[n].left <= start.left
    OBVIOUS
  <2>2. w[n + 1] = After(w[n], forY, present)
    BY <2>1, WalkSteps
  <2>3. w[n].left \in Nat /\ start.left \in Nat
    BY <2>1 DEF WalkState
  <2> DEFINE v == w[n]
  <2> HIDE DEF v, S
  <2>5. v \in WalkState
    BY <2>1 DEF v
  <2>6. /\ Turn(v, forY, present) \in WalkState
        /\ Turn(v, forY, present).left <= v.left
    BY <2>5, TurnTyped
  <2>7. w[n + 1] \in {v, Turn(v, forY, present)}
    BY <2>2 DEF After, v
  <2>8. \A u \in WalkState : u.left \in Nat
    BY DEF WalkState
  <2>9. QED
    BY <2>1, <2>3, <2>5, <2>6, <2>7, <2>8 DEF v
<1>3. S \in SUBSET Nat
  OBVIOUS
<1> HIDE DEF S
<1>4. S = Nat
  BY <1>1, <1>2, <1>3, Induction
<1>5. QED
  BY <1>4 DEF S

(* Turns never give input back, and a walk that is over stays where it is. *)
LEMMA WalkSettles ==
  ASSUME NEW N \in Nat, NEW w, NEW start \in WalkState, NEW forY \in BOOLEAN, NEW present,
         Walks(w, N, start, forY, present), NEW i \in 0 .. N
  PROVE  \A n \in i .. N : /\ w[n].left <= w[i].left
                           /\ w[i].over => w[n] = w[i]
<1> DEFINE S == {k \in Nat : i + k <= N => /\ w[i + k].left <= w[i].left
                                           /\ w[i].over => w[i + k] = w[i]}
<1>1. \A n \in 0 .. N : w[n] \in WalkState /\ w[n].left \in Nat /\ w[n].left <= start.left
  BY WalkTurnsTyped DEF WalkState
<1>2. 0 \in S
  <2>1. i + 0 = i /\ w[i].left \in Nat
    BY <1>1
  <2>2. QED
    BY <2>1
<1>3. ASSUME NEW k \in S PROVE k + 1 \in S
  <2> SUFFICES ASSUME i + (k + 1) <= N
               PROVE  /\ w[i + (k + 1)].left <= w[i].left
                      /\ w[i].over => w[i + (k + 1)] = w[i]
    OBVIOUS
  <2> DEFINE n == i + k
  <2>1. n \in 0 .. N - 1 /\ n \in 0 .. N /\ n + 1 \in 0 .. N /\ i + (k + 1) = n + 1
    OBVIOUS
  <2>2. w[n].left <= w[i].left /\ (w[i].over => w[n] = w[i])
    OBVIOUS
  <2> HIDE DEF n, S
  <2>3. w[n + 1] = After(w[n], forY, present)
    BY <2>1, WalkSteps
  <2>4. w[n] \in WalkState /\ w[n].left \in Nat /\ w[i].left \in Nat /\ w[n + 1].left \in Nat
    BY <1>1, <2>1
  <2>6. Turn(w[n], forY, present).left <= w[n].left
    BY <2>4, TurnTyped
  <2>7. w[n + 1].left <= w[n].left /\ (w[n].over => w[n + 1] = w[n])
    BY <2>3, <2>4, <2>6 DEF After
  <2>8. QED
    BY <2>1, <2>2, <2>4, <2>7
<1>4. S \in SUBSET Nat
  OBVIOUS
<1> HIDE DEF S
<1>5. S = Nat
  BY <1>2, <1>3, <1>4, Induction
<1>6. ASSUME NEW n \in i .. N
      PROVE  /\ w[n].left <= w[i].left
             /\ w[i].over => w[n] = w[i]
  <2>1. n - i \in S /\ i + (n - i) = n
    BY <1>5
  <2>2. QED
    BY <2>1 DEF S
<1>7. QED
  BY <1>6

LEMMA MarketIsItsFields ==
  ASSUME NEW u \in WalkState, NEW v \in WalkState,
         u.market.active = v.market.active,
         u.market.x = v.market.x, u.market.y = v.market.y
  PROVE  u.market = v.market
  BY DEF WalkState, Market

(* u stands where v stands, with spare less to spend; or has traded all v  *)
(* has, with nothing left where v has spare.                               *)
SameBut(u, v, spare) ==
  /\ u.market = v.market /\ u.fees = v.fees /\ u.over = v.over
  /\ u.out = v.out /\ u.fee = v.fee /\ v.left = u.left + spare
SameYield(u, v) ==
  /\ u.market.x = v.market.x /\ u.market.y = v.market.y
  /\ u.out = v.out /\ u.fee = v.fee
Spent(u, v, spare) == u.left = 0 /\ v.left = spare /\ SameYield(u, v)

(* A turn of the shorter walk does what the longer one's does, unless it   *)
(* spends its last input or the longer one stops at dust.                  *)
LEMMA TurnReplays ==
  ASSUME NEW u \in WalkState, NEW v \in WalkState, NEW spare \in Nat \ {0},
         NEW forY \in BOOLEAN, NEW present,
         SameBut(u, v, spare), u.left > 0, ~v.over,
         Turn(v, forY, present).left >= spare
  PROVE  \/ Spent(Turn(u, forY, present), Turn(v, forY, present), spare)
         \/ SameBut(Turn(u, forY, present), Turn(v, forY, present), spare)
         \/ Turn(v, forY, present).over /\ Turn(v, forY, present).left > spare
<1> DEFINE r == TurnFill(v, forY)
           f == TurnFees(v)
           a == Available(v.market, forY)
<1>1. /\ u.left \in Nat /\ v.left \in Nat /\ v.left # 0 /\ u.out = v.out /\ u.fee = v.fee
      /\ v.left = u.left + spare /\ u.market = v.market /\ u.fees = v.fees
      /\ ~u.over /\ v.left > spare
  BY ScaleAssumption DEF WalkState, SameBut
<1>2. TurnFees(u) = f /\ Available(u.market, forY) = a
  BY <1>1 DEF TurnFees
<1>3. Halted(u, present) <=> Halted(v, present)
  BY <1>1 DEF Halted
<1>4. CASE Halted(v, present)
  <2>1. Turn(u, forY, present) = Stop(u) /\ Turn(v, forY, present) = Stop(v)
    BY <1>3, <1>4, TurnCases
  <2>2. QED
    BY <1>1, <2>1, StopFields DEF SameBut
<1>5. CASE ~Halted(v, present) /\ a = 0
  <2>1. Turn(u, forY, present) = MoveOn(u, forY) /\ Turn(v, forY, present) = MoveOn(v, forY)
    BY <1>2, <1>3, <1>5, TurnCases
  <2>2. MoveOn(u, forY).market = MoveOn(v, forY).market
    BY <1>1, MarketIsItsFields, MoveOnFields
  <2>3. QED
    BY <1>1, <2>1, <2>2, MoveOnFields DEF SameBut
<1>6. CASE ~Halted(v, present) /\ a # 0 /\ r = NoSwap
  <2> DEFINE stopped == [v EXCEPT !.fees = f]
  <2>1. Turn(v, forY, present) = Stop(stopped)
    BY <1>6, TurnCases
  <2>2. stopped \in WalkState /\ stopped.left = v.left
    BY WalkFields DEF WalkState
  <2> HIDE DEF stopped
  <2>3. QED
    BY <1>1, <2>1, <2>2, StopFields
<1>7. CASE ~Halted(v, present) /\ a # 0 /\ r # NoSwap
  <2> DEFINE filled(w) == FillBin(w, f, r, forY)
  <2>1. Turn(v, forY, present) = MoveOn(filled(v), forY)
    BY <1>7, TurnCases
  <2>2. /\ filled(v) \in WalkState /\ filled(v).left = v.left - r.amountIn
        /\ r.amountIn \in Nat /\ filled(v).fees = f /\ ~filled(v).over
        /\ filled(v).market.active = v.market.active
        /\ filled(v).out = v.out + r.amountOut /\ filled(v).fee = v.fee + r.fee
    BY FillBinFields DEF SameBut
  <2>3. v.left - r.amountIn >= spare /\ v.left - r.amountIn > 0 /\ r.amountIn <= u.left
    <3> HIDE DEF r, filled
    <3>1. MoveOn(filled(v), forY).left = filled(v).left
      BY <2>2, MoveOnFields
    <3>2. QED
      BY <1>1, <2>1, <2>2, <3>1
  <2>4. TurnFill(u, forY) = r
    <3> DEFINE price == PriceOf[v.market.active]
               rate == FeeRateForStep(f, StepOf[v.market.active])
               onOutput == FeeOnOutput(forY)
    <3>1. r = SwapInBin(a, price, v.left, forY, rate, onOutput)
      BY DEF TurnFill
    <3>2. TurnFill(u, forY) = SwapInBin(a, price, u.left, forY, rate, onOutput)
      BY <1>1, <1>2 DEF TurnFill
    <3>3. /\ a \in Nat /\ price \in Nat \ {0} /\ rate \in 0 .. FeePrecision - 1
          /\ onOutput \in BOOLEAN
      BY WalkFields
    <3>4. /\ u.left \in Nat \ {0} /\ v.left \in Nat /\ u.left <= v.left
          /\ r # NoSwap /\ v.left - r.amountIn > 0 /\ r.amountIn <= u.left
      BY <1>1, <1>7, <2>3
    <3> HIDE DEF a, price, rate, onOutput, r, f
    <3>5. QED
      BY <3>1, <3>2, <3>3, <3>4, SmallerFillsSame
  <2>5. Turn(u, forY, present) = MoveOn(filled(u), forY)
    BY <1>2, <1>3, <1>7, <2>4, TurnCases
  <2>6. /\ filled(u) \in WalkState /\ filled(u).left = u.left - r.amountIn
        /\ filled(u).fees = f /\ ~filled(u).over
        /\ filled(u).market = filled(v).market
        /\ filled(u).out = filled(v).out /\ filled(u).fee = filled(v).fee
    <3> DEFINE own == FillBin(u, TurnFees(u), TurnFill(u, forY), forY)
    <3>1. own \in WalkState /\ own.left = u.left - TurnFill(u, forY).amountIn
          /\ own.fees = TurnFees(u) /\ own.over = u.over
          /\ own.out = u.out + TurnFill(u, forY).amountOut
          /\ own.fee = u.fee + TurnFill(u, forY).fee
      BY <1>1, FillBinFields
    <3>2. /\ filled(u) \in WalkState /\ filled(u).left = u.left - r.amountIn
          /\ filled(u).fees = f /\ ~filled(u).over
          /\ filled(u).out = filled(v).out /\ filled(u).fee = filled(v).fee
      <4>1. own = filled(u)
        BY <1>2, <2>4
      <4> HIDE DEF own, filled, r, f
      <4>2. QED
        BY <1>1, <1>2, <2>2, <2>4, <3>1, <4>1
    <3>3. filled(u).market = filled(v).market
      BY <1>1 DEF FillBin, WalkState
    <3>4. QED
      BY <3>2, <3>3
  <2> HIDE DEF filled, r, f
  <2>7. MoveOn(filled(u), forY).left = filled(u).left /\ filled(u).left \in Nat
    BY <2>6, MoveOnFields, WalkFields
  <2>8. CASE filled(u).left = 0
    <3>1. filled(v).left = spare
      BY <1>1, <2>2, <2>6, <2>8
    <3>2. QED
      BY <2>1, <2>2, <2>5, <2>6, <2>8, <3>1, MoveOnFields DEF Spent, SameYield
  <2>9. CASE filled(u).left # 0
    <3>1. filled(v).left # 0 /\ filled(v).left = filled(u).left + spare
      BY <1>1, <2>2, <2>3, <2>6
    <3>2. MoveOn(filled(u), forY).market = MoveOn(filled(v), forY).market
      BY <2>2, <2>6, <2>9, <3>1, MarketIsItsFields, MoveOnFields
    <3>3. QED
      BY <2>1, <2>2, <2>5, <2>6, <2>9, <3>1, <3>2, MoveOnFields DEF SameBut
  <2>10. QED
    BY <2>8, <2>9
<1>8. QED
  BY <1>4, <1>5, <1>6, <1>7

(* What is left of a budget is never negative, and never more than it.     *)
LEMMA WalkResultTyped ==
  ASSUME NEW m \in Market, NEW f \in FeeState, NEW elapsed \in Nat, NEW present,
         NEW budget \in Nat, NEW forY \in BOOLEAN
  PROVE  /\ WalkLadder(m, f, elapsed, present, budget, forY) \in WalkState
         /\ WalkLadder(m, f, elapsed, present, budget, forY).left \in 0 .. budget
<1>1. MaxBinsPerSwap \in Nat
  BY LadderAssumption
<1> DEFINE start == Start(m, f, elapsed, budget)
           w == Turns(m, f, elapsed, present, budget, forY)
<1>2. start \in WalkState /\ start.left = budget
  BY <1>1, StartTyped
<1>3. /\ Walks(w, MaxBinsPerSwap, start, forY, present)
      /\ WalkLadder(m, f, elapsed, present, budget, forY) = w[MaxBinsPerSwap]
  BY WalkIsItsTurns
<1> HIDE DEF start, w
<1>4. w[MaxBinsPerSwap] \in WalkState /\ w[MaxBinsPerSwap].left <= budget
  BY <1>1, <1>2, <1>3, WalkTurnsTyped
<1>5. QED
  BY <1>1, <1>3, <1>4 DEF WalkState

(* A turn that costs nothing trades nothing.                               *)
LEMMA TurnWithoutCost ==
  ASSUME NEW v \in WalkState, NEW forY \in BOOLEAN, NEW present,
         Turn(v, forY, present).left = v.left
  PROVE  SameYield(Turn(v, forY, present), v)
<1> DEFINE r == TurnFill(v, forY)
           stopped == [v EXCEPT !.fees = TurnFees(v)]
           filled == FillBin(v, TurnFees(v), r, forY)
<1>1. stopped \in WalkState /\ SameYield(stopped, v)
  BY WalkFields DEF WalkState, SameYield
<1>2. filled \in WalkState /\ filled.left = v.left - r.amountIn /\ v.left \in Nat
  BY FillBinFields, WalkFields
<1>3. ASSUME r # NoSwap PROVE r.amountIn > 0 /\ r.amountIn \in Nat
  <2>1. r.amountIn \in Nat
    BY FillBinFields
  <2> DEFINE a == Available(v.market, forY)
             price == PriceOf[v.market.active]
             rate == FeeRateForStep(TurnFees(v), StepOf[v.market.active])
             onOutput == FeeOnOutput(forY)
  <2>2. r = SwapInBin(a, price, v.left, forY, rate, onOutput)
    BY DEF TurnFill
  <2>3. /\ a \in Nat /\ price \in Nat \ {0} /\ rate \in 0 .. FeePrecision - 1
        /\ onOutput \in BOOLEAN /\ v.left \in Nat
    BY WalkFields
  <2> HIDE DEF a, price, rate, onOutput, r
  <2>4. QED
    BY <1>3, <2>1, <2>2, <2>3, FillTakesInput
<1> HIDE DEF r, stopped, filled
<1>4. MoveOn(filled, forY).left = filled.left
  BY <1>2, MoveOnFields
<1>5. r # NoSwap => Turn(v, forY, present) # MoveOn(filled, forY)
  BY <1>2, <1>3, <1>4
<1>6. Turn(v, forY, present) \in {Stop(v), Stop(stopped), MoveOn(v, forY)}
  BY <1>5, TurnCases DEF r, stopped, filled
<1>7. /\ SameYield(Stop(v), v) /\ SameYield(MoveOn(v, forY), v)
      /\ SameYield(Stop(stopped), stopped)
  BY <1>1, StopFields, MoveOnFields DEF SameYield
<1>8. QED
  BY <1>1, <1>6, <1>7 DEF SameYield

(* A pool that cannot take a whole budget fills completely on the part it  *)
(* did take, for the same output and the same fee: quote_ladder's advice   *)
(* to whoever must not fall short.                                         *)
THEOREM ShorterWalkFills ==
  ASSUME NEW m \in Market, NEW f \in FeeState, NEW elapsed \in Nat, NEW present,
         NEW budget \in Nat, NEW forY \in BOOLEAN
  PROVE  LET long == WalkLadder(m, f, elapsed, present, budget, forY)
             short == WalkLadder(m, f, elapsed, present, budget - long.left, forY)
         IN  short.left = 0 /\ SameYield(short, long)
<1> DEFINE rest == WalkLadder(m, f, elapsed, present, budget, forY).left
           size == budget - rest
           N == MaxBinsPerSwap
           long == Turns(m, f, elapsed, present, budget, forY)
           short == Turns(m, f, elapsed, present, size, forY)
           longStart == Start(m, f, elapsed, budget)
           shortStart == Start(m, f, elapsed, size)
<1>1. rest \in 0 .. budget
  BY WalkResultTyped
<1>2. /\ budget \in Nat /\ N \in Nat /\ rest \in Nat
      /\ size \in Nat /\ budget = size + rest
  BY <1>1, LadderAssumption
<1>3. /\ WalkLadder(m, f, elapsed, present, budget, forY) = long[N]
      /\ WalkLadder(m, f, elapsed, present, size, forY) = short[N]
      /\ Walks(long, N, longStart, forY, present)
      /\ Walks(short, N, shortStart, forY, present)
  BY WalkIsItsTurns
<1>4. /\ longStart \in WalkState /\ longStart.left = budget
      /\ shortStart \in WalkState /\ shortStart.left = size
      /\ SameBut(shortStart, longStart, rest)
  <2>1. SameBut(shortStart, longStart, rest)
    BY <1>2 DEF SameBut, Start
  <2> HIDE DEF size
  <2>2. QED
    BY <1>2, <2>1, StartTyped
<1>5. long[N].left = rest
  BY <1>3
<1> SUFFICES short[N].left = 0 /\ SameYield(short[N], long[N])
  BY <1>3
<1> HIDE DEF rest, size, long, short, longStart, shortStart, N
<1>6. CASE rest = 0
  <2>1. size = budget
    BY <1>2, <1>6
  <2>2. short = long
    BY <2>1 DEF short, long
  <2>3. QED
    BY <1>5, <1>6, <2>2 DEF SameYield
<1>7. CASE rest # 0
  <2> DEFINE S == {n \in Nat : n <= N => \/ Spent(short[n], long[n], rest)
                                         \/ SameBut(short[n], long[n], rest)}
  <2>1. \A n \in 0 .. N : /\ long[n] \in WalkState /\ long[n].left \in Nat
                          /\ long[n].left <= budget
                          /\ short[n] \in WalkState /\ short[n].left \in Nat
                          /\ short[n].left <= size
    <3>1. \A n \in 0 .. N : long[n] \in WalkState /\ long[n].left <= longStart.left
      BY <1>2, <1>3, <1>4, WalkTurnsTyped
    <3>2. \A n \in 0 .. N : short[n] \in WalkState /\ short[n].left <= shortStart.left
      BY <1>2, <1>3, <1>4, WalkTurnsTyped
    <3>3. \A v \in WalkState : v.left \in Nat
      BY DEF WalkState
    <3>4. QED
      BY <1>4, <3>1, <3>2, <3>3
  <2>2. \A i \in 0 .. N : /\ rest <= long[i].left
                          /\ long[i].over => long[i].left = rest
    <3> SUFFICES ASSUME NEW i \in 0 .. N
                 PROVE  /\ rest <= long[i].left
                        /\ long[i].over => long[i].left = rest
      OBVIOUS
    <3>1. N \in i .. N
      BY <1>2
    <3>2. \A n \in i .. N : /\ long[n].left <= long[i].left
                            /\ long[i].over => long[n] = long[i]
      BY <1>2, <1>3, <1>4, WalkSettles
    <3>3. QED
      BY <1>5, <3>1, <3>2
  <2>3. 0 \in S
    <3>1. short[0] = shortStart /\ long[0] = longStart
      BY <1>2, <1>3, WalkSteps
    <3>2. QED
      BY <1>4, <3>1
  <2>4. ASSUME NEW n \in S PROVE n + 1 \in S
    <3> SUFFICES ASSUME n + 1 <= N
                 PROVE  \/ Spent(short[n + 1], long[n + 1], rest)
                        \/ SameBut(short[n + 1], long[n + 1], rest)
      OBVIOUS
    <3>1. n \in 0 .. N - 1 /\ n \in 0 .. N /\ n + 1 \in 0 .. N
      BY <1>2
    <3>2. Spent(short[n], long[n], rest) \/ SameBut(short[n], long[n], rest)
      BY <3>1
    <3> HIDE DEF S
    <3>3. /\ short[n + 1] = After(short[n], forY, present)
          /\ long[n + 1] = After(long[n], forY, present)
      BY <1>2, <1>3, <3>1, WalkSteps
    <3>4. CASE Spent(short[n], long[n], rest)
      <4>1. /\ n + 1 \in n .. N /\ long[n] \in WalkState /\ short[n] \in WalkState
            /\ short[n].left = 0 /\ long[n].left = rest
        BY <1>2, <2>1, <3>1, <3>4 DEF Spent
      <4>2. \A k \in n .. N : /\ long[k].left <= long[n].left
                              /\ long[n].over => long[k] = long[n]
        BY <1>2, <1>3, <1>4, <3>1, WalkSettles
      <4>3. long[n + 1].left = rest
        BY <1>2, <2>1, <2>2, <3>1, <4>1, <4>2
      <4>4. SameYield(long[n + 1], long[n])
        <5>1. CASE long[n].over
          BY <3>3, <5>1 DEF After, SameYield
        <5>2. CASE ~long[n].over
          BY <3>3, <4>1, <4>3, <5>2, TurnWithoutCost DEF After
        <5>3. QED
          BY <5>1, <5>2
      <4>5. short[n + 1].left = 0 /\ SameYield(short[n + 1], short[n])
        <5>1. Turn(short[n], forY, present) = Stop(short[n])
          BY <4>1, TurnCases DEF Halted
        <5>2. QED
          BY <3>3, <4>1, <5>1, StopFields DEF After, SameYield
      <4>6. QED
        BY <3>4, <4>3, <4>4, <4>5 DEF Spent, SameYield
    <3>5. CASE SameBut(short[n], long[n], rest) /\ long[n].over
      BY <3>3, <3>5 DEF After, SameBut
    <3>6. CASE /\ SameBut(short[n], long[n], rest) /\ ~long[n].over
               /\ short[n].left # 0
      <4>1. /\ short[n + 1] = Turn(short[n], forY, present)
            /\ long[n + 1] = Turn(long[n], forY, present)
        BY <3>3, <3>6 DEF After, SameBut
      <4>2. /\ short[n] \in WalkState /\ long[n] \in WalkState
            /\ short[n].left > 0
        BY <1>2, <2>1, <3>1, <3>6
      <4>3. rest \in Nat \ {0} /\ Turn(long[n], forY, present).left >= rest
        BY <1>2, <1>7, <2>1, <2>2, <3>1, <4>1
      <4>4. ~(Turn(long[n], forY, present).over /\ Turn(long[n], forY, present).left > rest)
        BY <1>2, <2>1, <2>2, <3>1, <4>1
      <4>5. QED
        BY <3>6, <4>1, <4>2, <4>3, <4>4, TurnReplays
    <3>7. CASE SameBut(short[n], long[n], rest) /\ short[n].left = 0
      <4>1. long[n].left = rest
        BY <1>2, <3>7 DEF SameBut
      <4>2. Spent(short[n], long[n], rest)
        BY <3>7, <4>1 DEF SameBut, Spent, SameYield
      <4>3. QED
        BY <3>4, <4>2
    <3>8. QED
      BY <3>2, <3>4, <3>5, <3>6, <3>7
  <2>5. S \in SUBSET Nat
    OBVIOUS
  <2> HIDE DEF S
  <2>6. S = Nat
    BY <2>3, <2>4, <2>5, Induction
  <2>7. Spent(short[N], long[N], rest) \/ SameBut(short[N], long[N], rest)
    BY <1>2, <2>6 DEF S
  <2>8. short[N].left \in Nat /\ long[N].left = rest
    BY <1>2, <1>5, <2>1
  <2>9. QED
    BY <1>2, <2>7, <2>8 DEF SameBut, Spent, SameYield
<1>8. QED
  BY <1>6, <1>7

-----------------------------------------------------------------------------
(***************************************************************************)
(* The inventory of a whole ladder.                                        *)
(***************************************************************************)
Spans == MaxBin - MinBin + 1

(* s holds what the lowest 0 .. N bins hold together.                      *)
Sums(s, N, amounts) ==
  s = [k \in 0 .. N |-> IF k = 0 THEN 0 ELSE s[k - 1] + amounts[MinBin + k - 1]]

LEMMA SumsExist ==
  ASSUME NEW amounts
  PROVE  \A N \in Nat : \E s : Sums(s, N, amounts)
<1> DEFINE S == {N \in Nat : \E s : Sums(s, N, amounts)}
<1>1. 0 \in S
  <2>1. Sums([k \in 0 .. 0 |-> 0], 0, amounts)
    BY DEF Sums
  <2>2. QED
    BY <2>1
<1>2. ASSUME NEW N \in S PROVE N + 1 \in S
  <2>1. N \in Nat
    OBVIOUS
  <2>2. PICK s : Sums(s, N, amounts)
    OBVIOUS
  <2> DEFINE v == [k \in 0 .. N + 1 |-> IF k \in 0 .. N THEN s[k] ELSE s[N] + amounts[MinBin + N]]
  <2>3. MinBin + (N + 1) - 1 = MinBin + N
    BY <2>1, LadderAssumption
  <2>4. \A k \in 0 .. N + 1 : v[k] = IF k = 0 THEN 0 ELSE v[k - 1] + amounts[MinBin + k - 1]
    BY <2>1, <2>2, <2>3 DEF Sums
  <2>5. v = [k \in 0 .. N + 1 |-> IF k = 0 THEN 0 ELSE v[k - 1] + amounts[MinBin + k - 1]]
    <3> HIDE DEF v
    <3>1. v = [k \in 0 .. N + 1 |-> v[k]]
      BY DEF v
    <3>2. QED
      BY <2>4, <3>1, Zenon
  <2>6. Sums(v, N + 1, amounts)
    <3> HIDE DEF v
    <3>1. QED
      BY <2>5, Zenon DEF Sums
  <2>7. QED
    BY <2>1, <2>6
<1>3. S \in SUBSET Nat
  OBVIOUS
<1> HIDE DEF S
<1>4. S = Nat
  BY <1>1, <1>2, <1>3, Induction
<1>5. QED
  BY <1>4 DEF S

LEMMA TotalIsItsSums ==
  ASSUME NEW amounts
  PROVE  \E s : Sums(s, Spans, amounts) /\ TotalOf(amounts) = s[Spans]
<1> DEFINE s == CHOOSE s : Sums(s, Spans, amounts)
<1>1. Spans \in Nat
  BY LadderAssumption DEF Spans
<1>2. \E t : Sums(t, Spans, amounts)
  BY <1>1, SumsExist
<1>3. Sums(s, Spans, amounts)
  BY <1>2, Zenon
<1>4. TotalOf(amounts) = s[Spans]
  BY Zenon DEF TotalOf, Sums, Spans
<1> HIDE DEF s
<1>5. QED
  BY <1>3, <1>4

(* Bin by bin no less is in all no less, and exactly as much only when it  *)
(* is as much in every bin.                                                *)
LEMMA TotalsCompare ==
  ASSUME NEW f \in [Bins -> Nat], NEW g \in [Bins -> Nat], \A b \in Bins : f[b] <= g[b]
  PROVE  /\ TotalOf(f) \in Nat /\ TotalOf(g) \in Nat /\ TotalOf(f) <= TotalOf(g)
         /\ TotalOf(f) = TotalOf(g) => \A b \in Bins : f[b] = g[b]
<1>1. PICK s : Sums(s, Spans, f) /\ TotalOf(f) = s[Spans]
  BY TotalIsItsSums
<1>2. PICK t : Sums(t, Spans, g) /\ TotalOf(g) = t[Spans]
  BY TotalIsItsSums
<1>3. Spans \in Nat /\ MinBin \in Int /\ MaxBin \in Int /\ Spans = MaxBin - MinBin + 1
  BY LadderAssumption DEF Spans
<1> DEFINE S == {k \in Nat : k <= Spans =>
                   /\ s[k] \in Nat /\ t[k] \in Nat /\ s[k] <= t[k]
                   /\ s[k] = t[k] => \A b \in Bins : b < MinBin + k => f[b] = g[b]}
<1>4. 0 \in S
  <2>1. s[0] = 0 /\ t[0] = 0
    BY <1>1, <1>2, <1>3 DEF Sums
  <2>2. QED
    BY <1>3, <2>1 DEF Bins
<1>5. ASSUME NEW k \in S PROVE k + 1 \in S
  <2> SUFFICES ASSUME k + 1 <= Spans
               PROVE  /\ s[k + 1] \in Nat /\ t[k + 1] \in Nat /\ s[k + 1] <= t[k + 1]
                      /\ s[k + 1] = t[k + 1] =>
                           \A b \in Bins : b < MinBin + (k + 1) => f[b] = g[b]
    OBVIOUS
  <2> DEFINE c == MinBin + k
  <2>1. k \in Nat /\ s[k] \in Nat /\ t[k] \in Nat /\ s[k] <= t[k]
    BY <1>3
  <2>2. s[k] = t[k] => \A b \in Bins : b < c => f[b] = g[b]
    BY <1>3
  <2>3. c \in Bins /\ MinBin + (k + 1) - 1 = c /\ MinBin + (k + 1) = c + 1 /\ c \in Int
    BY <1>3, <2>1 DEF Bins
  <2>4. s[k + 1] = s[k] + f[c] /\ t[k + 1] = t[k] + g[c]
    <3>1. k + 1 \in 0 .. Spans /\ k + 1 # 0 /\ (k + 1) - 1 = k
      BY <1>3, <2>1
    <3> HIDE DEF S, c
    <3>2. QED
      BY <1>1, <1>2, <2>3, <3>1 DEF Sums
  <2> HIDE DEF S, c
  <2>5. f[c] \in Nat /\ g[c] \in Nat /\ f[c] <= g[c]
    BY <2>3
  <2>6. s[k + 1] \in Nat /\ t[k + 1] \in Nat /\ s[k + 1] <= t[k + 1]
    BY <2>1, <2>4, <2>5
  <2>7. ASSUME s[k + 1] = t[k + 1], NEW b \in Bins, b < c + 1
        PROVE  f[b] = g[b]
    <3>1. s[k] = t[k] /\ f[c] = g[c]
      BY <2>1, <2>4, <2>5, <2>7
    <3>2. b \in Int
      BY <1>3 DEF Bins
    <3>3. b < c \/ b = c
      BY <2>3, <2>7, <3>2
    <3>4. QED
      BY <2>2, <3>1, <3>3
  <2>8. QED
    BY <2>3, <2>6, <2>7
<1>6. S \in SUBSET Nat
  OBVIOUS
<1> HIDE DEF S
<1>7. S = Nat
  BY <1>4, <1>5, <1>6, Induction
<1>8. /\ s[Spans] \in Nat /\ t[Spans] \in Nat /\ s[Spans] <= t[Spans]
      /\ s[Spans] = t[Spans] => \A b \in Bins : b < MinBin + Spans => f[b] = g[b]
  BY <1>3, <1>7 DEF S
<1>9. \A b \in Bins : b < MinBin + Spans
  BY <1>3 DEF Bins
<1>10. QED
  BY <1>1, <1>2, <1>8, <1>9

(* What one bin gains or loses, the ladder does.                           *)
LEMMA TotalChanges ==
  ASSUME NEW f \in [Bins -> Nat], NEW b \in Bins, NEW n \in Nat
  PROVE  /\ TotalOf(f) \in Nat
         /\ TotalOf([f EXCEPT ![b] = n]) = TotalOf(f) + (n - f[b])
<1> DEFINE g == [f EXCEPT ![b] = n]
<1>1. PICK s : Sums(s, Spans, f) /\ TotalOf(f) = s[Spans]
  BY TotalIsItsSums
<1>2. PICK t : Sums(t, Spans, g) /\ TotalOf(g) = t[Spans]
  BY TotalIsItsSums
<1>3. /\ Spans \in Nat /\ MinBin \in Int /\ MaxBin \in Int /\ Spans = MaxBin - MinBin + 1
      /\ b \in Int /\ MinBin <= b /\ b <= MaxBin
  BY LadderAssumption DEF Spans, Bins
<1>4. f[b] \in Nat /\ g[b] = n /\ \A c \in Bins : f[c] \in Nat /\ (c # b => g[c] = f[c])
  OBVIOUS
<1> DEFINE S == {k \in Nat : k <= Spans =>
                   /\ s[k] \in Nat
                   /\ t[k] = s[k] + (IF b < MinBin + k THEN n - f[b] ELSE 0)}
<1> HIDE DEF g
<1>5. 0 \in S
  <2>1. s[0] = 0 /\ t[0] = 0
    BY <1>1, <1>2, <1>3 DEF Sums
  <2>2. QED
    BY <1>3, <2>1
<1>6. ASSUME NEW k \in S PROVE k + 1 \in S
  <2> SUFFICES ASSUME k + 1 <= Spans
               PROVE  /\ s[k + 1] \in Nat
                      /\ t[k + 1] = s[k + 1] + (IF b < MinBin + (k + 1) THEN n - f[b] ELSE 0)
    OBVIOUS
  <2> DEFINE c == MinBin + k
  <2>1. k \in Nat /\ s[k] \in Nat /\ t[k] = s[k] + (IF b < c THEN n - f[b] ELSE 0)
    BY <1>3
  <2>2. c \in Bins /\ MinBin + (k + 1) - 1 = c /\ MinBin + (k + 1) = c + 1 /\ c \in Int
    BY <1>3, <2>1 DEF Bins
  <2>3. s[k + 1] = s[k] + f[c] /\ t[k + 1] = t[k] + g[c]
    <3>1. k + 1 \in 0 .. Spans /\ k + 1 # 0 /\ (k + 1) - 1 = k
      BY <1>3, <2>1
    <3> HIDE DEF S, c
    <3>2. QED
      BY <1>1, <1>2, <2>2, <3>1 DEF Sums
  <2> HIDE DEF S, c
  <2>4. f[c] \in Nat /\ (c # b => g[c] = f[c])
    BY <1>4, <2>2
  <2>5. CASE c = b
    BY <1>3, <1>4, <2>1, <2>2, <2>3, <2>5
  <2>6. CASE c # b
    BY <1>3, <1>4, <2>1, <2>2, <2>3, <2>4, <2>6
  <2>7. QED
    BY <2>5, <2>6
<1>7. S \in SUBSET Nat
  OBVIOUS
<1> HIDE DEF S
<1>8. S = Nat
  BY <1>5, <1>6, <1>7, Induction
<1>9. s[Spans] \in Nat /\ t[Spans] = s[Spans] + (n - f[b])
  BY <1>3, <1>4, <1>8 DEF S
<1>10. QED
  BY <1>1, <1>2, <1>9 DEF g

-----------------------------------------------------------------------------
(***************************************************************************)
(* A set that no turn leaves holds every state of a walk that starts in it.*)
(***************************************************************************)
LEMMA WalkStays ==
  ASSUME NEW S, NEW m, NEW f, NEW elapsed, NEW present, NEW budget, NEW forY,
         Start(m, f, elapsed, budget) \in S,
         \A v \in S : Turn(v, forY, present) \in S
  PROVE  WalkLadder(m, f, elapsed, present, budget, forY) \in S
<1> DEFINE N == MaxBinsPerSwap
           start == Start(m, f, elapsed, budget)
           w == Turns(m, f, elapsed, present, budget, forY)
           T == {n \in Nat : n <= N => w[n] \in S}
<1>1. N \in Nat
  BY LadderAssumption
<1>2. /\ Walks(w, N, start, forY, present)
      /\ WalkLadder(m, f, elapsed, present, budget, forY) = w[N]
  BY WalkIsItsTurns
<1> HIDE DEF N, w
<1>3. w[0] = start /\ \A n \in 0 .. N - 1 : w[n + 1] = After(w[n], forY, present)
  BY <1>1, <1>2, WalkSteps
<1>4. 0 \in T
  BY <1>3
<1>5. ASSUME NEW n \in T PROVE n + 1 \in T
  <2> SUFFICES ASSUME n + 1 <= N PROVE w[n + 1] \in S
    OBVIOUS
  <2>1. n \in 0 .. N - 1 /\ w[n] \in S
    BY <1>1
  <2>2. w[n + 1] = After(w[n], forY, present)
    BY <1>3, <2>1
  <2>3. QED
    BY <2>1, <2>2 DEF After
<1>6. T \in SUBSET Nat
  OBVIOUS
<1> HIDE DEF T
<1>7. T = Nat
  BY <1>4, <1>5, <1>6, Induction
<1>8. QED
  BY <1>1, <1>2, <1>7 DEF T

(* Two sets of arrays make the same walk when no state it passes through   *)
(* tells them apart.                                                       *)
LEMMA WalkTellsNotApart ==
  ASSUME NEW S, NEW m, NEW f, NEW elapsed, NEW named, NEW present, NEW budget, NEW forY,
         Start(m, f, elapsed, budget) \in S,
         \A v \in S : /\ Turn(v, forY, present) \in S
                      /\ Turn(v, forY, named) = Turn(v, forY, present)
  PROVE  WalkLadder(m, f, elapsed, named, budget, forY) =
           WalkLadder(m, f, elapsed, present, budget, forY)
<1> DEFINE N == MaxBinsPerSwap
           start == Start(m, f, elapsed, budget)
           w == Turns(m, f, elapsed, present, budget, forY)
           u == Turns(m, f, elapsed, named, budget, forY)
           T == {n \in Nat : n <= N => w[n] \in S /\ u[n] = w[n]}
<1>1. N \in Nat
  BY LadderAssumption
<1>2. /\ Walks(w, N, start, forY, present) /\ Walks(u, N, start, forY, named)
      /\ WalkLadder(m, f, elapsed, present, budget, forY) = w[N]
      /\ WalkLadder(m, f, elapsed, named, budget, forY) = u[N]
  BY WalkIsItsTurns
<1> HIDE DEF N, w, u
<1>3. /\ w[0] = start /\ \A n \in 0 .. N - 1 : w[n + 1] = After(w[n], forY, present)
      /\ u[0] = start /\ \A n \in 0 .. N - 1 : u[n + 1] = After(u[n], forY, named)
  BY <1>1, <1>2, WalkSteps
<1>4. 0 \in T
  BY <1>3
<1>5. ASSUME NEW n \in T PROVE n + 1 \in T
  <2> SUFFICES ASSUME n + 1 <= N PROVE w[n + 1] \in S /\ u[n + 1] = w[n + 1]
    OBVIOUS
  <2>1. n \in 0 .. N - 1 /\ w[n] \in S /\ u[n] = w[n]
    BY <1>1
  <2>2. w[n + 1] = After(w[n], forY, present) /\ u[n + 1] = After(w[n], forY, named)
    BY <1>3, <2>1
  <2>3. QED
    BY <2>1, <2>2 DEF After
<1>6. T \in SUBSET Nat
  OBVIOUS
<1> HIDE DEF T
<1>7. T = Nat
  BY <1>4, <1>5, <1>6, Induction
<1>8. QED
  BY <1>1, <1>2, <1>7 DEF T

(* What a walk did to the ladder's inventory, to its trader and to the fee *)
(* is one account: on the side that pays the fee, the fee is the           *)
(* difference.                                                             *)
Settled(v, m, budget, forY) ==
  LET input == IF forY THEN TotalOf(v.market.x) - TotalOf(m.x)
               ELSE TotalOf(v.market.y) - TotalOf(m.y)
      output == IF forY THEN TotalOf(m.y) - TotalOf(v.market.y)
                ELSE TotalOf(m.x) - TotalOf(v.market.x)
  IN  IF FeeOnOutput(forY) THEN input = budget - v.left /\ output = v.out + v.fee
      ELSE input = budget - v.left - v.fee /\ output = v.out

LEMMA TurnSettles ==
  ASSUME NEW v \in WalkState, NEW m \in Market, NEW budget \in Nat, NEW forY \in BOOLEAN,
         NEW present, Settled(v, m, budget, forY)
  PROVE  Settled(Turn(v, forY, present), m, budget, forY)
<1> DEFINE r == TurnFill(v, forY)
           b == v.market.active
           x == v.market.x
           y == v.market.y
           newX == IF forY THEN x[b] + r.binIn ELSE x[b] - r.binOut
           newY == IF forY THEN y[b] - r.binOut ELSE y[b] + r.binIn
           stopped == [v EXCEPT !.fees = TurnFees(v)]
           filled == FillBin(v, TurnFees(v), r, forY)
           Same(u) == /\ u.market.x = v.market.x /\ u.market.y = v.market.y
                      /\ u.left = v.left /\ u.out = v.out /\ u.fee = v.fee
<1>1. ASSUME NEW u, Same(u) PROVE Settled(u, m, budget, forY)
  BY <1>1 DEF Settled
<1>2. /\ stopped \in WalkState /\ Same(stopped) /\ Same(Stop(stopped)) /\ Same(Stop(v))
      /\ Same(MoveOn(v, forY))
  <2>1. stopped \in WalkState /\ Same(stopped)
    BY WalkFields DEF WalkState
  <2> HIDE DEF stopped
  <2>2. QED
    BY <2>1, StopFields, MoveOnFields
<1>3. /\ x \in [Bins -> Nat] /\ y \in [Bins -> Nat] /\ b \in Bins
      /\ x[b] \in Nat /\ y[b] \in Nat /\ v.left \in Nat /\ v.out \in Nat /\ v.fee \in Nat
      /\ m.x \in [Bins -> Nat] /\ m.y \in [Bins -> Nat]
  BY WalkFields DEF Market
<1>4. /\ r.amountIn \in Nat /\ r.amountOut \in Nat /\ r.fee \in Nat
      /\ r.binIn \in Nat /\ r.binOut \in Nat
      /\ IF FeeOnOutput(forY) THEN r.amountIn = r.binIn /\ r.amountOut + r.fee = r.binOut
         ELSE r.amountIn = r.binIn + r.fee /\ r.amountOut = r.binOut
  BY TurnFillIsFair DEF FairFill
<1>5. r.binOut <= Available(v.market, forY)
  BY TurnFillIsFair DEF FairFill
<1>6. /\ filled \in WalkState /\ filled.left = v.left - r.amountIn
      /\ filled.market.x = [x EXCEPT ![b] = newX]
      /\ filled.market.y = [y EXCEPT ![b] = newY]
      /\ filled.out = v.out + r.amountOut /\ filled.fee = v.fee + r.fee
  BY FillBinFields
<1>7. newX \in Nat /\ newY \in Nat
  <2> HIDE DEF r, b
  <2>1. QED
    BY <1>3, <1>4, <1>5 DEF Available, b
<1> HIDE DEF newX, newY
<1>8. /\ TotalOf(filled.market.x) = TotalOf(x) + (newX - x[b])
      /\ TotalOf(filled.market.y) = TotalOf(y) + (newY - y[b])
      /\ TotalOf(x) \in Nat /\ TotalOf(y) \in Nat
      /\ TotalOf(m.x) \in Nat /\ TotalOf(m.y) \in Nat
  <2> HIDE DEF filled, x, y, b
  <2>1. /\ TotalOf([x EXCEPT ![b] = newX]) = TotalOf(x) + (newX - x[b])
        /\ TotalOf(x) \in Nat
    BY <1>3, <1>7, TotalChanges
  <2>2. /\ TotalOf([y EXCEPT ![b] = newY]) = TotalOf(y) + (newY - y[b])
        /\ TotalOf(y) \in Nat
    BY <1>3, <1>7, TotalChanges
  <2>3. TotalOf(m.x) \in Nat /\ TotalOf(m.y) \in Nat
    BY <1>3, <1>7, TotalChanges
  <2>4. QED
    BY <1>6, <2>1, <2>2, <2>3
<1>9. Settled(filled, m, budget, forY)
  <2>1. /\ newX - x[b] = IF forY THEN r.binIn ELSE -r.binOut
        /\ newY - y[b] = IF forY THEN -r.binOut ELSE r.binIn
    <3> HIDE DEF r, x, y, b
    <3>1. QED
      BY <1>3, <1>4 DEF newX, newY
  <2> HIDE DEF filled, r
  <2>2. QED
    BY <1>3, <1>4, <1>6, <1>8, <2>1 DEF Settled
<1>10. Settled(MoveOn(filled, forY), m, budget, forY)
  <2> HIDE DEF filled
  <2>1. /\ MoveOn(filled, forY).market.x = filled.market.x
        /\ MoveOn(filled, forY).market.y = filled.market.y
        /\ MoveOn(filled, forY).left = filled.left
        /\ MoveOn(filled, forY).out = filled.out /\ MoveOn(filled, forY).fee = filled.fee
    BY <1>6, MoveOnFields
  <2>2. QED
    BY <1>9, <2>1 DEF Settled
<1>11. Turn(v, forY, present) \in {Stop(v), Stop(stopped), MoveOn(v, forY), MoveOn(filled, forY)}
  BY TurnCases
<1> HIDE DEF filled, stopped, Same
<1>12. QED
  BY <1>1, <1>2, <1>10, <1>11

(* Whatever the walk, what it took in, gave out and charged is what the    *)
(* ladder's inventory shows: walk_ladder neither mints nor loses a token.  *)
THEOREM WalkIsAccounted ==
  ASSUME NEW m \in Market, NEW f \in FeeState, NEW elapsed \in Nat, NEW present,
         NEW budget \in Nat, NEW forY \in BOOLEAN
  PROVE  Settled(WalkLadder(m, f, elapsed, present, budget, forY), m, budget, forY)
<1> DEFINE S == {v \in WalkState : Settled(v, m, budget, forY)}
           start == Start(m, f, elapsed, budget)
<1>1. start \in S
  <2>1. start \in WalkState
    BY StartTyped
  <2>2. /\ start.market = m /\ start.left = budget /\ start.out = 0 /\ start.fee = 0
    BY DEF Start
  <2>3. TotalOf(m.x) \in Nat /\ TotalOf(m.y) \in Nat
    <3>1. m.x \in [Bins -> Nat] /\ m.y \in [Bins -> Nat] /\ m.active \in Bins
      BY DEF Market
    <3>2. QED
      BY <3>1, TotalChanges
  <2> HIDE DEF start
  <2>4. QED
    BY <2>1, <2>2, <2>3 DEF Settled
<1>2. \A v \in S : Turn(v, forY, present) \in S
  BY TurnTyped, TurnSettles
<1> HIDE DEF S
<1>3. WalkLadder(m, f, elapsed, present, budget, forY) \in S
  BY <1>1, <1>2, WalkStays
<1>4. QED
  BY <1>3 DEF S

-----------------------------------------------------------------------------
(***************************************************************************)
(* A lower fee never buys less.                                            *)
(***************************************************************************)
LEMMA CeilMonotone ==
  ASSUME NEW a \in Nat, NEW c \in Nat, NEW b \in Nat \ {0}, a <= c
  PROVE  DivCeil(a, b) <= DivCeil(c, b)
<1> DEFINE p == DivCeil(a, b)
           q == DivCeil(c, b)
<1>1. p \in Nat /\ p * b < a + b /\ q \in Nat /\ c <= q * b
  BY Ceil
<1> HIDE DEF p, q
<1>2. p * b < (q + 1) * b
  BY <1>1
<1>3. p < q + 1
  BY <1>1, <1>2, Monotone
<1>4. QED
  BY <1>1, <1>3 DEF p, q

LEMMA FloorMonotone ==
  ASSUME NEW a \in Nat, NEW c \in Nat, NEW b \in Nat \ {0}, a <= c
  PROVE  a \div b <= c \div b
<1> DEFINE p == a \div b
           q == c \div b
<1>1. p \in Nat /\ p * b <= a /\ q \in Nat /\ c < q * b + b
  BY Floor
<1> HIDE DEF p, q
<1>2. p * b < (q + 1) * b
  BY <1>1
<1>3. p < q + 1
  BY <1>1, <1>2, Monotone
<1>4. QED
  BY <1>1, <1>3 DEF p, q

(* What is left of an amount after the fee: more of more, and more at a    *)
(* lower rate.                                                             *)
LEMMA NetMonotone ==
  ASSUME NEW less \in Nat, NEW more \in Nat, less <= more,
         NEW cheap \in 0 .. FeePrecision - 1, NEW dear \in 0 .. FeePrecision - 1, cheap <= dear
  PROVE  less - FeeFromAmount(less, dear) <= more - FeeFromAmount(more, cheap)
<1> DEFINE P == FeePrecision
           a == FeeFromAmount(less, dear)
           b == FeeFromAmount(more, cheap)
           d == more - less
<1>1. /\ P \in Nat \ {0} /\ cheap \in Nat /\ dear \in Nat /\ cheap <= P /\ d \in Nat
      /\ less * dear \in Nat /\ more * cheap \in Nat
  BY ScaleAssumption
<1>2. /\ a \in Nat /\ less * dear <= a * P
      /\ b \in Nat /\ b * P < more * cheap + P
  BY <1>1, Ceil DEF FeeFromAmount
<1>3. more * cheap = less * cheap + d * cheap /\ less * cheap <= less * dear /\ d * cheap <= d * P
  BY <1>1
<1> HIDE DEF P, a, b, d
<1>4. b * P < (a + d + 1) * P
  <2>1. (a + d + 1) * P = a * P + d * P + P
    BY <1>1, <1>2
  <2>2. /\ a * P \in Nat /\ d * P \in Nat /\ b * P \in Nat
        /\ less * cheap \in Nat /\ d * cheap \in Nat
    BY <1>1, <1>2
  <2>3. QED
    BY <1>1, <1>2, <1>3, <2>1, <2>2
<1>5. b < a + d + 1
  BY <1>1, <1>2, <1>4, Monotone
<1>6. QED
  BY <1>1, <1>2, <1>5 DEF a, b, d

LEMMA FeeOnAmountMonotone ==
  ASSUME NEW n \in Nat, NEW cheap \in 0 .. FeePrecision - 1,
         NEW dear \in 0 .. FeePrecision - 1, cheap <= dear
  PROVE  FeeOnAmount(n, cheap) <= FeeOnAmount(n, dear)
<1> DEFINE c == FeePrecision - cheap
           d == FeePrecision - dear
           a == FeeOnAmount(n, cheap)
           b == FeeOnAmount(n, dear)
<1>1. /\ c \in Nat \ {0} /\ d \in Nat \ {0} /\ d <= c /\ cheap \in Nat /\ dear \in Nat
      /\ n * cheap \in Nat /\ n * dear \in Nat /\ n * cheap <= n * dear
  BY ScaleAssumption
<1>2. /\ a \in Nat /\ a * c < n * cheap + c
      /\ b \in Nat /\ n * dear <= b * d
  BY <1>1, Ceil DEF FeeOnAmount
<1> HIDE DEF a, b, c, d
<1>3. b * d <= b * c
  BY <1>1, <1>2
<1>4. a * c < (b + 1) * c
  <2>1. (b + 1) * c = b * c + c /\ b * c \in Nat /\ b * d \in Nat /\ a * c \in Nat
    BY <1>1, <1>2
  <2>2. QED
    BY <1>1, <1>2, <1>3, <2>1
<1>5. a < b + 1
  BY <1>1, <1>2, <1>4, Monotone
<1>6. QED
  BY <1>2, <1>5 DEF a, b

LEMMA OutputMonotone ==
  ASSUME NEW less \in Nat, NEW more \in Nat, less <= more,
         NEW price \in Nat \ {0}, NEW swapForY \in BOOLEAN
  PROVE  OutputFor(less, price, swapForY) <= OutputFor(more, price, swapForY)
<1>1. /\ less * price \in Nat /\ more * price \in Nat /\ less * price <= more * price
      /\ less * One \in Nat /\ more * One \in Nat /\ less * One <= more * One
      /\ One \in Nat \ {0}
  BY ScaleAssumption
<1>2. QED
  BY <1>1, FloorMonotone DEF OutputFor

(* With no less to spend and no more to pay, a bin gives no less; and what *)
(* the dearer swap drains with input to spare, the cheaper one drains too, *)
(* with no less to spare.                                                  *)
Outdoes(u, v, more, less) ==
  /\ u.amountOut >= v.amountOut
  /\ v # NoSwap /\ less - v.amountIn > 0 =>
       /\ u # NoSwap /\ u.binIn = v.binIn /\ u.binOut = v.binOut
       /\ more - u.amountIn >= less - v.amountIn

LEMMA CheaperOutputFee ==
  ASSUME NEW available \in Nat, NEW price \in Nat \ {0}, NEW swapForY \in BOOLEAN,
         NEW less \in Nat, NEW more \in Nat, less <= more,
         NEW cheap \in 0 .. FeePrecision - 1, NEW dear \in 0 .. FeePrecision - 1, cheap <= dear
  PROVE  Outdoes(SwapFeeOnOutput(available, price, more, swapForY, cheap),
                 SwapFeeOnOutput(available, price, less, swapForY, dear), more, less)
<1> DEFINE drain == NetInToDrain(available, price, swapForY)
           outOf(n) == IF n >= drain THEN available
                       ELSE Least(OutputFor(n, price, swapForY), available)
           fill(n, rate) == [amountIn |-> Least(n, drain),
                             amountOut |-> outOf(n) - FeeFromAmount(outOf(n), rate),
                             fee |-> FeeFromAmount(outOf(n), rate),
                             binIn |-> Least(n, drain), binOut |-> outOf(n)]
           u == SwapFeeOnOutput(available, price, more, swapForY, cheap)
           v == SwapFeeOnOutput(available, price, less, swapForY, dear)
<1>1. drain \in Nat
  BY DrainIsCovered
<1>2. /\ u = IF outOf(more) = 0 THEN NoSwap ELSE fill(more, cheap)
      /\ v = IF outOf(less) = 0 THEN NoSwap ELSE fill(less, dear)
  BY DEF SwapFeeOnOutput
<1>3. /\ OutputFor(less, price, swapForY) \in Nat /\ OutputFor(more, price, swapForY) \in Nat
      /\ OutputFor(less, price, swapForY) <= OutputFor(more, price, swapForY)
  BY OutputNat, OutputMonotone
<1> HIDE DEF drain
<1>4. outOf(less) \in Nat /\ outOf(more) \in Nat /\ outOf(less) <= outOf(more)
  BY <1>1, <1>3 DEF Least
<1>5. /\ FeeFromAmount(outOf(more), cheap) \in 0 .. outOf(more)
      /\ FeeFromAmount(outOf(less), dear) \in 0 .. outOf(less)
      /\ outOf(less) - FeeFromAmount(outOf(less), dear)
           <= outOf(more) - FeeFromAmount(outOf(more), cheap)
  <2> HIDE DEF outOf
  <2>1. QED
    BY <1>4, FeeWithinAmount, NetMonotone
<1>6. u.amountOut = IF outOf(more) = 0 THEN 0
                    ELSE outOf(more) - FeeFromAmount(outOf(more), cheap)
  BY <1>2 DEF NoSwap
<1>7. v.amountOut = IF outOf(less) = 0 THEN 0
                    ELSE outOf(less) - FeeFromAmount(outOf(less), dear)
  BY <1>2 DEF NoSwap
<1>8. u.amountOut >= v.amountOut
  <2> HIDE DEF outOf, u, v
  <2>1. QED
    BY <1>4, <1>5, <1>6, <1>7
<1>9. ASSUME v # NoSwap, less - v.amountIn > 0
      PROVE  /\ u # NoSwap /\ u.binIn = v.binIn /\ u.binOut = v.binOut
             /\ more - u.amountIn >= less - v.amountIn
  <2>1. outOf(less) # 0 /\ v = fill(less, dear)
    BY <1>2, <1>9
  <2>2. v.amountIn = Least(less, drain)
    BY <2>1
  <2>3. less > drain
    <3> HIDE DEF v
    <3>1. QED
      BY <1>1, <1>9, <2>2 DEF Least
  <2>4. outOf(less) = available /\ outOf(more) = available /\ more > drain
    BY <1>1, <2>3
  <2>5. Least(less, drain) = drain /\ Least(more, drain) = drain
    BY <1>1, <2>3, <2>4 DEF Least
  <2>6. u = fill(more, cheap)
    BY <1>2, <2>1, <2>4
  <2>7. /\ u.binIn = drain /\ u.binOut = available /\ u.amountIn = drain
        /\ v.binIn = drain /\ v.binOut = available /\ v.amountIn = drain
    <3> HIDE DEF outOf, u, v
    <3>1. QED
      BY <2>1, <2>4, <2>5, <2>6
  <2>8. u # NoSwap
    <3> HIDE DEF u, v, outOf
    <3>1. available # 0
      BY <2>1, <2>4
    <3>2. QED
      BY <2>7, <3>1 DEF NoSwap
  <2> HIDE DEF u, v, outOf
  <2>9. QED
    BY <1>1, <2>7, <2>8
<1>10. QED
  BY <1>8, <1>9 DEF Outdoes

LEMMA CheaperInputFee ==
  ASSUME NEW available \in Nat \ {0}, NEW price \in Nat \ {0}, NEW swapForY \in BOOLEAN,
         NEW less \in Nat, NEW more \in Nat, less <= more,
         NEW cheap \in 0 .. FeePrecision - 1, NEW dear \in 0 .. FeePrecision - 1, cheap <= dear
  PROVE  Outdoes(SwapFeeOnInput(available, price, more, swapForY, cheap),
                 SwapFeeOnInput(available, price, less, swapForY, dear), more, less)
<1> DEFINE drain == NetInToDrain(available, price, swapForY)
           full(rate) == [amountIn |-> drain + FeeOnAmount(drain, rate),
                          amountOut |-> available, fee |-> FeeOnAmount(drain, rate),
                          binIn |-> drain, binOut |-> available]
           net(n, rate) == n - FeeFromAmount(n, rate)
           outOf(n, rate) == Least(OutputFor(net(n, rate), price, swapForY), available)
           part(n, rate) == [amountIn |-> n, amountOut |-> outOf(n, rate),
                             fee |-> FeeFromAmount(n, rate),
                             binIn |-> net(n, rate), binOut |-> outOf(n, rate)]
           drains(n, rate) == /\ FitsU64(drain + FeeOnAmount(drain, rate))
                              /\ n >= drain + FeeOnAmount(drain, rate)
           u == SwapFeeOnInput(available, price, more, swapForY, cheap)
           v == SwapFeeOnInput(available, price, less, swapForY, dear)
<1>1. /\ drain \in Nat /\ FeeOnAmount(drain, cheap) \in Nat /\ FeeOnAmount(drain, dear) \in Nat
      /\ FeeOnAmount(drain, cheap) <= FeeOnAmount(drain, dear)
  <2>1. drain \in Nat
    BY DrainIsCovered
  <2> HIDE DEF drain
  <2>2. QED
    BY <2>1, FeeOnAmountNat, FeeOnAmountMonotone
<1>2. /\ u = IF drains(more, cheap) THEN full(cheap)
             ELSE IF outOf(more, cheap) = 0 THEN NoSwap ELSE part(more, cheap)
      /\ v = IF drains(less, dear) THEN full(dear)
             ELSE IF outOf(less, dear) = 0 THEN NoSwap ELSE part(less, dear)
  BY DEF SwapFeeOnInput
<1>3. /\ net(less, dear) \in Nat /\ net(more, cheap) \in Nat
      /\ net(less, dear) <= net(more, cheap)
  <2>1. FeeFromAmount(less, dear) \in 0 .. less /\ FeeFromAmount(more, cheap) \in 0 .. more
    BY FeeWithinAmount
  <2>2. QED
    BY <2>1, NetMonotone
<1>4. /\ outOf(less, dear) \in Nat /\ outOf(more, cheap) \in Nat
      /\ outOf(less, dear) <= outOf(more, cheap)
      /\ outOf(less, dear) <= available
  <2> DEFINE a == OutputFor(net(less, dear), price, swapForY)
             b == OutputFor(net(more, cheap), price, swapForY)
  <2>1. a \in Nat /\ b \in Nat /\ a <= b
    <3> HIDE DEF net
    <3>1. QED
      BY <1>3, OutputNat, OutputMonotone
  <2> HIDE DEF a, b
  <2>2. Least(a, available) \in Nat /\ Least(b, available) \in Nat
        /\ Least(a, available) <= Least(b, available) /\ Least(a, available) <= available
    BY <2>1 DEF Least
  <2>3. QED
    BY <2>2 DEF a, b
<1>5. drains(less, dear) => drains(more, cheap)
  <2> HIDE DEF drain
  <2>1. QED
    BY <1>1, ScaleAssumption DEF FitsU64
<1> HIDE DEF drain, drains, outOf, net
<1>6. /\ u.amountOut = IF drains(more, cheap) THEN available ELSE outOf(more, cheap)
      /\ v.amountOut = IF drains(less, dear) THEN available ELSE outOf(less, dear)
  BY <1>2 DEF NoSwap
<1>7. u.amountOut >= v.amountOut
  <2> HIDE DEF u, v
  <2>1. QED
    BY <1>4, <1>5, <1>6
<1>8. ASSUME v # NoSwap, less - v.amountIn > 0
      PROVE  /\ u # NoSwap /\ u.binIn = v.binIn /\ u.binOut = v.binOut
             /\ more - u.amountIn >= less - v.amountIn
  <2>1. drains(less, dear)
    <3>1. ASSUME ~drains(less, dear) PROVE FALSE
      <4>1. v.amountIn = less
        BY <1>2, <1>8, <3>1
      <4> HIDE DEF v
      <4>2. QED
        BY <1>8, <4>1
    <3>2. QED
      BY <3>1
  <2>2. u = full(cheap) /\ v = full(dear)
    BY <1>2, <1>5, <2>1
  <2>3. u # NoSwap
    BY <2>2 DEF NoSwap
  <2>4. /\ u.binIn = drain /\ u.binOut = available /\ v.binIn = drain /\ v.binOut = available
        /\ u.amountIn = drain + FeeOnAmount(drain, cheap)
        /\ v.amountIn = drain + FeeOnAmount(drain, dear)
    BY <2>2
  <2> HIDE DEF u, v
  <2>5. QED
    BY <1>1, <2>3, <2>4
<1>9. QED
  BY <1>7, <1>8 DEF Outdoes

LEMMA CheaperFill ==
  ASSUME NEW available \in Nat, NEW price \in Nat \ {0}, NEW swapForY \in BOOLEAN,
         NEW less \in Nat, NEW more \in Nat, less <= more,
         NEW cheap \in 0 .. FeePrecision - 1, NEW dear \in 0 .. FeePrecision - 1, cheap <= dear,
         NEW feeOnOutput \in BOOLEAN
  PROVE  Outdoes(SwapInBin(available, price, more, swapForY, cheap, feeOnOutput),
                 SwapInBin(available, price, less, swapForY, dear, feeOnOutput), more, less)
<1> DEFINE u == SwapInBin(available, price, more, swapForY, cheap, feeOnOutput)
           v == SwapInBin(available, price, less, swapForY, dear, feeOnOutput)
<1>1. CASE available = 0 \/ less = 0
  <2>1. v = NoSwap
    BY <1>1 DEF SwapInBin
  <2>2. u.amountOut \in Nat
    BY SwapIsFair DEF FairFill
  <2> HIDE DEF u, v
  <2>3. QED
    BY <2>1, <2>2 DEF Outdoes, NoSwap, u, v
<1>2. CASE available # 0 /\ less # 0
  <2>1. more # 0
    BY <1>2
  <2>2. CASE feeOnOutput
    <3>1. /\ u = SwapFeeOnOutput(available, price, more, swapForY, cheap)
          /\ v = SwapFeeOnOutput(available, price, less, swapForY, dear)
      BY <1>2, <2>1, <2>2 DEF SwapInBin
    <3>2. QED
      BY <3>1, CheaperOutputFee
  <2>3. CASE ~feeOnOutput
    <3>1. /\ u = SwapFeeOnInput(available, price, more, swapForY, cheap)
          /\ v = SwapFeeOnInput(available, price, less, swapForY, dear)
      BY <1>2, <2>1, <2>3 DEF SwapInBin
    <3>2. available \in Nat \ {0}
      BY <1>2
    <3>3. QED
      BY <3>1, <3>2, CheaperInputFee
  <2>4. QED
    BY <2>2, <2>3
<1>3. QED
  BY <1>1, <1>2

(* A calmer pool never charges more.                                       *)
Calmer(f, g) == f.index = g.index /\ f.reference <= g.reference

LEMMA CalmerIsCheaper ==
  ASSUME NEW f \in FeeState, NEW g \in FeeState, Calmer(f, g), NEW b \in Bins, NEW step \in Nat
  PROVE  LET cf == UpdateAccumulator(f, b)
             cg == UpdateAccumulator(g, b)
         IN  /\ cf \in FeeState /\ cg \in FeeState /\ Calmer(cf, cg)
             /\ FeeRateForStep(cf, step) <= FeeRateForStep(cg, step)
<1> DEFINE cf == UpdateAccumulator(f, b)
           cg == UpdateAccumulator(g, b)
           d == Distance(b, f.index) * VolatilityUnit
           moved(h) == h.accumulator * step
<1>1. cf \in FeeState /\ cg \in FeeState
  BY AccumulatorTyped
<1>2. /\ cf.index = f.index /\ cf.reference = f.reference
      /\ cf.accumulator = Least(f.reference + d, MaxVolatility)
      /\ cg.index = g.index /\ cg.reference = g.reference
      /\ cg.accumulator = Least(g.reference + d, MaxVolatility)
  BY DEF UpdateAccumulator, FeeState, Calmer
<1>3. /\ f.reference \in Nat /\ g.reference \in Nat /\ f.reference <= g.reference
      /\ f.index \in Int /\ b \in Int /\ MaxVolatility \in Nat
  BY LadderAssumption, FeeAssumption DEF FeeState, Bins, Calmer
<1>4. d \in Nat
  <2>1. Distance(b, f.index) \in Nat /\ VolatilityUnit \in Nat
    BY <1>3, DistanceNat, FeeAssumption
  <2>2. QED
    BY <2>1
<1> HIDE DEF d, cf, cg
<1>5. /\ cf.accumulator \in Nat /\ cg.accumulator \in Nat
      /\ cf.accumulator <= cg.accumulator
  BY <1>2, <1>3, <1>4 DEF Least
<1>6. moved(cf) \in Nat /\ moved(cg) \in Nat /\ moved(cf) <= moved(cg)
  BY <1>5, Monotone
<1> HIDE DEF moved
<1>7. /\ moved(cf) * moved(cf) \in Nat /\ moved(cg) * moved(cg) \in Nat
      /\ moved(cf) * moved(cf) <= moved(cg) * moved(cg)
  BY <1>6
<1>8. VariableFeeRate(cf.accumulator, step) <= VariableFeeRate(cg.accumulator, step)
      /\ VariableFeeRate(cf.accumulator, step) \in Nat
      /\ VariableFeeRate(cg.accumulator, step) \in Nat
  <2> DEFINE p == moved(cf) * moved(cf)
             q == moved(cg) * moved(cg)
  <2>1. p \in Nat /\ q \in Nat /\ p <= q /\ FeeControl \in Nat /\ FeeDenominator \in Nat \ {0}
    BY <1>7, FeeAssumption
  <2>2. /\ VariableFeeRate(cf.accumulator, step) = DivCeil(FeeControl * p, FeeDenominator)
        /\ VariableFeeRate(cg.accumulator, step) = DivCeil(FeeControl * q, FeeDenominator)
    BY DEF VariableFeeRate, moved
  <2> HIDE DEF p, q
  <2>3. /\ FeeControl * p \in Nat /\ FeeControl * q \in Nat
        /\ FeeControl * p <= FeeControl * q
    BY <2>1
  <2>4. QED
    BY <2>1, <2>2, <2>3, Ceil, CeilMonotone
<1>9. BaseFeeRate(step) \in Nat
  <2>1. BaseFactor * step * BaseScale \in Nat
    BY FeeAssumption
  <2>2. QED
    BY <2>1, Floor DEF BaseFeeRate
<1>10. FeeRateForStep(cf, step) <= FeeRateForStep(cg, step)
  BY <1>8, <1>9, FeeAssumption, ScaleAssumption DEF FeeRateForStep, Least
<1>11. QED
  BY <1>1, <1>2, <1>10 DEF Calmer, cf, cg

LEMMA TurnPays ==
  ASSUME NEW v \in WalkState, NEW forY \in BOOLEAN, NEW present
  PROVE  /\ Turn(v, forY, present).out \in Nat
         /\ Turn(v, forY, present).out >= v.out
<1> DEFINE stopped == [v EXCEPT !.fees = TurnFees(v)]
           filled == FillBin(v, TurnFees(v), TurnFill(v, forY), forY)
<1>1. stopped \in WalkState /\ stopped.out = v.out /\ v.out \in Nat
  BY WalkFields DEF WalkState
<1>2. filled \in WalkState /\ filled.out >= v.out
  <2>1. /\ filled \in WalkState /\ filled.out = v.out + TurnFill(v, forY).amountOut
        /\ TurnFill(v, forY).amountOut \in Nat
    BY FillBinFields
  <2> HIDE DEF filled
  <2>2. QED
    BY <1>1, <2>1
<1>3. Turn(v, forY, present) \in {Stop(v), Stop(stopped), MoveOn(v, forY), MoveOn(filled, forY)}
  BY TurnCases
<1> HIDE DEF stopped, filled
<1>4. /\ Stop(v).out = v.out /\ Stop(stopped).out = stopped.out
      /\ MoveOn(v, forY).out = v.out /\ MoveOn(filled, forY).out = filled.out
  BY <1>1, <1>2, StopFields, MoveOnFields
<1>5. Turn(v, forY, present) \in WalkState
  BY TurnTyped
<1>6. Turn(v, forY, present).out \in Nat
  BY <1>5 DEF WalkState
<1>7. QED
  BY <1>1, <1>2, <1>3, <1>4, <1>6

(* u has bought no less than v, and either v is done or u stands where v   *)
(* stands with no less to spend and no more to pay.                        *)
Leads(u, v) ==
  /\ u.out >= v.out
  /\ v.over \/ /\ ~u.over /\ u.market = v.market
               /\ u.left >= v.left /\ Calmer(u.fees, v.fees)

LEMMA TurnLeads ==
  ASSUME NEW u \in WalkState, NEW v \in WalkState, NEW forY \in BOOLEAN, NEW present,
         Leads(u, v)
  PROVE  Leads(After(u, forY, present), After(v, forY, present))
<1> DEFINE a == Available(v.market, forY)
           b == v.market.active
           f == TurnFees(u)
           g == TurnFees(v)
           r == TurnFill(u, forY)
           s == TurnFill(v, forY)
           fill(w) == FillBin(w, TurnFees(w), TurnFill(w, forY), forY)
<1>1. /\ u.left \in Nat /\ v.left \in Nat /\ u.out \in Nat /\ v.out \in Nat /\ u.out >= v.out
      /\ u.fees \in FeeState /\ v.fees \in FeeState
  BY DEF WalkState, Leads
<1>2. /\ After(u, forY, present).out >= u.out
      /\ After(u, forY, present).out \in Nat
  BY <1>1, TurnPays DEF After
<1>3. CASE v.over
  <2>1. After(v, forY, present) = v
    BY <1>3 DEF After
  <2>2. After(u, forY, present).out >= v.out
    BY <1>1, <1>2
  <2>3. QED
    BY <1>3, <2>1, <2>2 DEF Leads
<1>4. CASE ~v.over
  <2>1. /\ ~u.over /\ u.market = v.market /\ u.left >= v.left /\ Calmer(u.fees, v.fees)
        /\ After(u, forY, present) = Turn(u, forY, present)
        /\ After(v, forY, present) = Turn(v, forY, present)
    BY <1>4 DEF Leads, After
  <2>2. Turn(u, forY, present).out >= u.out /\ Turn(u, forY, present).out \in Nat
    BY TurnPays
  <2>3. ASSUME Turn(v, forY, present).over, Turn(v, forY, present).out = v.out
        PROVE  Leads(Turn(u, forY, present), Turn(v, forY, present))
    BY <1>1, <2>2, <2>3 DEF Leads
  <2>4. CASE Halted(v, present)
    <3>1. Turn(v, forY, present) = Stop(v)
      BY <2>4, TurnCases
    <3>2. QED
      BY <2>1, <2>3, <3>1, StopFields
  <2>5. CASE ~Halted(v, present) /\ a = 0
    <3>1. ~Halted(u, present) /\ v.left # 0 /\ u.left # 0
      BY <1>1, <2>1, <2>5 DEF Halted
    <3>2. Turn(v, forY, present) = MoveOn(v, forY) /\ Turn(u, forY, present) = MoveOn(u, forY)
      BY <2>1, <2>5, <3>1, TurnCases
    <3>3. MoveOn(u, forY).market = MoveOn(v, forY).market
      BY <2>1, <3>1, MarketIsItsFields, MoveOnFields
    <3>4. QED
      BY <1>1, <2>1, <3>1, <3>2, <3>3, MoveOnFields DEF Leads
  <2>6. CASE ~Halted(v, present) /\ a # 0
    <3>1. /\ ~Halted(u, present) /\ v.left # 0 /\ u.left # 0 /\ Available(u.market, forY) = a
      BY <1>1, <2>1, <2>6 DEF Halted
    <3>2. /\ f \in FeeState /\ g \in FeeState /\ Calmer(f, g)
          /\ FeeRateForStep(f, StepOf[b]) <= FeeRateForStep(g, StepOf[b])
      <4>1. b \in Bins /\ StepOf[b] \in Nat
        BY WalkFields, LadderAssumption
      <4>2. f = UpdateAccumulator(u.fees, b) /\ g = UpdateAccumulator(v.fees, b)
        BY <2>1 DEF TurnFees
      <4> HIDE DEF f, g, b
      <4>3. QED
        BY <1>1, <2>1, <4>1, <4>2, CalmerIsCheaper
    <3>3. Outdoes(r, s, u.left, v.left)
      <4> DEFINE price == PriceOf[b]
                 cheap == FeeRateForStep(f, StepOf[b])
                 dear == FeeRateForStep(g, StepOf[b])
                 onOutput == FeeOnOutput(forY)
      <4>1. /\ a \in Nat /\ price \in Nat \ {0} /\ onOutput \in BOOLEAN
            /\ cheap \in 0 .. FeePrecision - 1 /\ dear \in 0 .. FeePrecision - 1
            /\ cheap <= dear
        BY <2>1, <3>2, WalkFields
      <4>2. /\ r = SwapInBin(a, price, u.left, forY, cheap, onOutput)
            /\ s = SwapInBin(a, price, v.left, forY, dear, onOutput)
        BY <2>1 DEF TurnFill
      <4> HIDE DEF a, price, cheap, dear, onOutput, r, s
      <4>3. QED
        BY <1>1, <2>1, <4>1, <4>2, CheaperFill
    <3>4. /\ fill(u) \in WalkState /\ fill(u).left = u.left - r.amountIn
          /\ fill(u).out = u.out + r.amountOut /\ fill(u).fees = f /\ fill(u).over = u.over
          /\ r.amountOut \in Nat
      BY FillBinFields
    <3>5. /\ fill(v) \in WalkState /\ fill(v).left = v.left - s.amountIn
          /\ fill(v).out = v.out + s.amountOut /\ fill(v).fees = g /\ fill(v).over = v.over
          /\ s.amountOut \in Nat
      BY FillBinFields
    <3>6. Turn(u, forY, present) = IF r = NoSwap THEN Stop([u EXCEPT !.fees = f])
                                   ELSE MoveOn(fill(u), forY)
      BY <2>6, <3>1, TurnCases
    <3>7. Turn(v, forY, present) = IF s = NoSwap THEN Stop([v EXCEPT !.fees = g])
                                   ELSE MoveOn(fill(v), forY)
      BY <2>6, <3>1, TurnCases
    <3>8. Turn(u, forY, present).out = u.out + r.amountOut
      <4>1. CASE r = NoSwap
        <5> DEFINE stopped == [u EXCEPT !.fees = f]
        <5>1. stopped \in WalkState /\ stopped.out = u.out
          BY <3>2 DEF WalkState
        <5>2. Turn(u, forY, present) = Stop(stopped) /\ r.amountOut = 0
          BY <3>6, <4>1 DEF NoSwap
        <5> HIDE DEF stopped, r
        <5>3. QED
          BY <1>1, <5>1, <5>2, StopFields
      <4>2. CASE r # NoSwap
        <5> HIDE DEF r, f, fill
        <5>1. QED
          BY <3>4, <3>6, <4>2, MoveOnFields
      <4>3. QED
        BY <4>1, <4>2
    <3>9. CASE s = NoSwap
      <4> DEFINE stopped == [v EXCEPT !.fees = g]
      <4>1. stopped \in WalkState /\ stopped.out = v.out
        BY <3>2 DEF WalkState
      <4>2. Turn(v, forY, present) = Stop(stopped)
        BY <3>7, <3>9
      <4> HIDE DEF stopped
      <4>3. QED
        BY <2>1, <2>3, <4>1, <4>2, StopFields
    <3>10. CASE s # NoSwap /\ fill(v).left = 0
      <4>1. Turn(v, forY, present).over /\ Turn(v, forY, present).out = v.out + s.amountOut
        <5> HIDE DEF s, g, fill
        <5>1. Turn(v, forY, present) = MoveOn(fill(v), forY)
          BY <3>7, <3>10
        <5>2. /\ MoveOn(fill(v), forY).out = fill(v).out
              /\ MoveOn(fill(v), forY).over =
                   (fill(v).over \/ fill(v).left = 0
                      \/ fill(v).market.active + Step(forY) \notin Bins)
          BY <3>5, MoveOnFields
        <5>3. QED
          BY <3>5, <3>10, <5>1, <5>2, Zenon
      <4>2. r.amountOut >= s.amountOut
        BY <3>3 DEF Outdoes
      <4> HIDE DEF r, s
      <4>3. QED
        BY <1>1, <2>1, <3>4, <3>5, <3>8, <4>1, <4>2 DEF Leads
    <3>11. CASE s # NoSwap /\ fill(v).left # 0
      <4>1. /\ r # NoSwap /\ r.binIn = s.binIn /\ r.binOut = s.binOut
            /\ u.left - r.amountIn >= v.left - s.amountIn /\ r.amountOut >= s.amountOut
        <5>1. v.left - s.amountIn > 0
          <6>1. fill(v).left \in Nat
            BY <3>5 DEF WalkState
          <6> HIDE DEF s, fill
          <6>2. QED
            BY <3>5, <3>11, <6>1
        <5>2. QED
          BY <3>3, <3>11, <5>1 DEF Outdoes
      <4>2. /\ fill(u).market = fill(v).market
        <5>1. /\ fill(u).market.active = b /\ fill(v).market.active = b
              /\ fill(u).market.x = fill(v).market.x /\ fill(u).market.y = fill(v).market.y
          <6>1. /\ fill(u).market.active = b
                /\ fill(u).market.x = [v.market.x EXCEPT ![b] =
                     IF forY THEN v.market.x[b] + r.binIn ELSE v.market.x[b] - r.binOut]
                /\ fill(u).market.y = [v.market.y EXCEPT ![b] =
                     IF forY THEN v.market.y[b] - r.binOut ELSE v.market.y[b] + r.binIn]
            BY <2>1, FillBinFields
          <6>2. /\ fill(v).market.active = b
                /\ fill(v).market.x = [v.market.x EXCEPT ![b] =
                     IF forY THEN v.market.x[b] + s.binIn ELSE v.market.x[b] - s.binOut]
                /\ fill(v).market.y = [v.market.y EXCEPT ![b] =
                     IF forY THEN v.market.y[b] - s.binOut ELSE v.market.y[b] + s.binIn]
            BY FillBinFields
          <6> HIDE DEF r, s, fill
          <6>3. QED
            BY <4>1, <6>1, <6>2
        <5> HIDE DEF fill
        <5>2. QED
          BY <3>4, <3>5, <5>1, MarketIsItsFields
      <4> HIDE DEF r, s, fill, f, g
      <4>3. Turn(u, forY, present) = MoveOn(fill(u), forY)
            /\ Turn(v, forY, present) = MoveOn(fill(v), forY)
        BY <3>6, <3>7, <3>11, <4>1
      <4>4. fill(u).left >= fill(v).left /\ fill(u).left # 0 /\ fill(u).out >= fill(v).out
        <5>1. fill(u).left \in Nat /\ fill(v).left \in Nat
          BY <3>4, <3>5 DEF WalkState
        <5>2. QED
          BY <1>1, <3>4, <3>5, <3>11, <4>1, <5>1
      <4>5. MoveOn(fill(u), forY).market = MoveOn(fill(v), forY).market
        BY <3>4, <3>5, <3>11, <4>2, <4>4, MarketIsItsFields, MoveOnFields
      <4>6. /\ MoveOn(fill(u), forY).left = fill(u).left
            /\ MoveOn(fill(u), forY).out = fill(u).out
            /\ MoveOn(fill(u), forY).fees = f
            /\ MoveOn(fill(u), forY).over =
                 (u.over \/ fill(u).left = 0 \/ fill(u).market.active + Step(forY) \notin Bins)
        BY <3>4, MoveOnFields
      <4>7. /\ MoveOn(fill(v), forY).left = fill(v).left
            /\ MoveOn(fill(v), forY).out = fill(v).out
            /\ MoveOn(fill(v), forY).fees = g
            /\ MoveOn(fill(v), forY).over =
                 (v.over \/ fill(v).left = 0 \/ fill(v).market.active + Step(forY) \notin Bins)
        BY <3>5, MoveOnFields
      <4>8. MoveOn(fill(v), forY).over \/ ~MoveOn(fill(u), forY).over
        BY <2>1, <3>11, <4>2, <4>4, <4>6, <4>7, Zenon
      <4>9. QED
        BY <2>1, <3>2, <4>3, <4>4, <4>5, <4>6, <4>7, <4>8 DEF Leads
    <3>12. QED
      BY <3>9, <3>10, <3>11
  <2>7. QED
    BY <2>1, <2>4, <2>5, <2>6
<1>5. QED
  BY <1>3, <1>4

(* Past the filter period the references move to the same bin, and wait as *)
(* long as one may, to no higher a reference.                              *)
LEMMA WaitingCalms ==
  ASSUME NEW f \in FeeState, NEW active \in Bins, NEW early \in Nat, NEW late \in Nat,
         FilterPeriod <= early, early <= late
  PROVE  Calmer(UpdateReferences(f, active, late), UpdateReferences(f, active, early))
<1> DEFINE q == (f.accumulator * ReductionFactor) \div BasisPointMax
           moved(r) == [f EXCEPT !.index = active, !.reference = r]
<1>1. q \in Nat
  <2>1. f.accumulator \in Nat /\ ReductionFactor \in Nat
    BY FeeAssumption, ScaleAssumption DEF FeeState
  <2>2. f.accumulator * ReductionFactor \in Nat
    BY <2>1
  <2>3. QED
    BY <2>2, Floor, ScaleAssumption
<1>2. /\ UpdateReferences(f, active, late) = moved(IF late < DecayPeriod THEN q ELSE 0)
      /\ UpdateReferences(f, active, early) = moved(IF early < DecayPeriod THEN q ELSE 0)
  BY FeeAssumption DEF UpdateReferences
<1> HIDE DEF q
<1>3. (IF late < DecayPeriod THEN q ELSE 0) <= (IF early < DecayPeriod THEN q ELSE 0)
  BY <1>1, FeeAssumption
<1>4. \A r : moved(r).index = active /\ moved(r).reference = r
  BY DEF FeeState
<1> HIDE DEF moved
<1>5. QED
  BY <1>2, <1>3, <1>4 DEF Calmer

(* Once the references have moved, whoever waits longer buys no less.      *)
THEOREM WaitingBuysNoLess ==
  ASSUME NEW m \in Market, NEW f \in FeeState, NEW early \in Nat, NEW late \in Nat,
         FilterPeriod <= early, early <= late,
         NEW present, NEW budget \in Nat, NEW forY \in BOOLEAN
  PROVE  WalkLadder(m, f, late, present, budget, forY).out
           >= WalkLadder(m, f, early, present, budget, forY).out
<1> DEFINE N == MaxBinsPerSwap
           cheapStart == Start(m, f, late, budget)
           dearStart == Start(m, f, early, budget)
           u == Turns(m, f, late, present, budget, forY)
           v == Turns(m, f, early, present, budget, forY)
           S == {n \in Nat : n <= N => Leads(u[n], v[n])}
<1>1. N \in Nat
  BY LadderAssumption
<1>2. /\ Walks(u, N, cheapStart, forY, present) /\ Walks(v, N, dearStart, forY, present)
      /\ WalkLadder(m, f, late, present, budget, forY) = u[N]
      /\ WalkLadder(m, f, early, present, budget, forY) = v[N]
  BY WalkIsItsTurns
<1>3. cheapStart \in WalkState /\ dearStart \in WalkState
  BY StartTyped
<1>4. Leads(cheapStart, dearStart)
  <2>1. Calmer(UpdateReferences(f, m.active, late), UpdateReferences(f, m.active, early))
    <3>1. m.active \in Bins
      BY DEF Market
    <3>2. QED
      BY <3>1, WaitingCalms
  <2>2. QED
    BY <2>1 DEF Start, Leads
<1> HIDE DEF N, u, v, cheapStart, dearStart
<1>5. /\ u[0] = cheapStart /\ v[0] = dearStart
      /\ \A n \in 0 .. N - 1 : /\ u[n + 1] = After(u[n], forY, present)
                               /\ v[n + 1] = After(v[n], forY, present)
  BY <1>1, <1>2, WalkSteps
<1>6. \A n \in 0 .. N : u[n] \in WalkState /\ v[n] \in WalkState
  BY <1>1, <1>2, <1>3, WalkTurnsTyped
<1>7. 0 \in S
  BY <1>4, <1>5
<1>8. ASSUME NEW n \in S PROVE n + 1 \in S
  <2> SUFFICES ASSUME n + 1 <= N PROVE Leads(u[n + 1], v[n + 1])
    OBVIOUS
  <2>1. n \in 0 .. N - 1 /\ n \in 0 .. N /\ Leads(u[n], v[n])
    BY <1>1
  <2> HIDE DEF S
  <2>2. Leads(After(u[n], forY, present), After(v[n], forY, present))
    BY <1>6, <2>1, TurnLeads
  <2>3. QED
    BY <1>5, <2>1, <2>2
<1>9. S \in SUBSET Nat
  OBVIOUS
<1> HIDE DEF S
<1>10. S = Nat
  BY <1>7, <1>8, <1>9, Induction
<1>11. QED
  BY <1>1, <1>2, <1>10 DEF S, Leads
=============================================================================
