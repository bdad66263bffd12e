SPECIFICATION Spec
CONSTANTS
  One = 2
  GrowthScale = 1
  FeePrecision = 20
  BasisPointMax = 2
  U64Max = 63
  MinBin <- Lowest
  MaxBin = 1
  BinsPerArray = 2
  MaxBinsPerSwap = 2
  PriceOf <- LadderPrice
  StepOf <- LadderStep
  QuoteOnly = TRUE
  BaseFactor = 10
  BaseScale = 1
  FeeControl = 1
  FeeDenominator = 2
  MaxFeeRate = 6
  VolatilityUnit = 1
  MaxVolatility = 2
  FilterPeriod = 1
  DecayPeriod = 2
  ReductionFactor = 1
  Amounts = {0, 2}
  Budgets = {1, 4}
  MaxTotal = 6
INVARIANTS
  SidesKept
  NoFreeLunch
  SameFeeWithinBurst
  AdviceFills
  EndsAsWalked
CHECK_DEADLOCK FALSE
