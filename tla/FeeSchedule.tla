----------------------------- MODULE FeeSchedule -----------------------------
(***************************************************************************)
(* The fee rate of one bin (fee.rs, pool.rs): a base part from the bin's   *)
(* width and a variable part from the pool's volatility accumulator, which *)
(* grows with the distance walked and decays with the time the pool idles. *)
(***************************************************************************)
EXTENDS BinMath

CONSTANTS
  BaseFactor, BaseScale, \* Config.base_factor, 10^base_fee_power_factor
  FeeControl,            \* Config.variable_fee_control
  FeeDenominator,        \* VARIABLE_FEE_DENOMINATOR
  MaxFeeRate,            \* MAX_FEE_RATE
  VolatilityUnit,        \* 10_000: what one bin of distance adds
  MaxVolatility,         \* Config.max_volatility_accumulator
  FilterPeriod, DecayPeriod, ReductionFactor

ASSUME FeeAssumption ==
  /\ BaseFactor \in Nat /\ BaseScale \in Nat /\ FeeControl \in Nat
  /\ FeeDenominator \in Nat \ {0} /\ MaxFeeRate \in 0 .. FeePrecision - 1
  /\ VolatilityUnit \in Nat /\ MaxVolatility \in Nat
  /\ FilterPeriod \in Nat /\ DecayPeriod \in Nat /\ FilterPeriod <= DecayPeriod
  /\ ReductionFactor \in 0 .. BasisPointMax

BaseFeeRate(step) == (BaseFactor * step * BaseScale) \div 10

VariableFeeRate(accumulator, step) ==
  LET moved == accumulator * step
  IN  DivCeil(FeeControl * (moved * moved), FeeDenominator)

FeeRateForStep(f, step) ==
  Least(BaseFeeRate(step) + VariableFeeRate(f.accumulator, step), MaxFeeRate)

(* Mutant: the references move at every swap, however soon.                *)
AlwaysReset(f, active, elapsed) ==
  [f EXCEPT !.index = active,
            !.reference = (f.accumulator * ReductionFactor) \div BasisPointMax]

(* Mutant: the reference is dropped early and decays afterwards.           *)
DecaysLate(f, active, elapsed) ==
  IF elapsed < FilterPeriod THEN f
  ELSE [f EXCEPT !.index = active,
                 !.reference =
                    IF elapsed < DecayPeriod THEN 0
                    ELSE (f.accumulator * ReductionFactor) \div BasisPointMax]

(* update_references                                                       *)
UpdateReferences(f, active, elapsed) ==
  IF elapsed < FilterPeriod THEN f
  ELSE [f EXCEPT !.index = active,
                 !.reference =
                    IF elapsed < DecayPeriod
                    THEN (f.accumulator * ReductionFactor) \div BasisPointMax
                    ELSE 0]

Distance(a, b) == IF a <= b THEN b - a ELSE a - b

UpdateAccumulator(f, b) ==
  [f EXCEPT !.accumulator =
     Least(f.reference + Distance(b, f.index) * VolatilityUnit, MaxVolatility)]
=============================================================================
