SPECIFICATION Spec
CONSTANTS
  One = 2
  GrowthScale = 1
  FeePrecision = 20
  BasisPointMax = 2
  U64Max = 63
  OneInBasisPoints = 10
  MinBin <- Lowest
  MaxBin = 1
  BinsPerArray = 1
  MaxBinsPerSwap = 3
  PriceOf <- LadderPrice
  StepOf <- LadderStep
  QuoteOnly = TRUE
  BaseFactor = 10
  BaseScale = 1
  FeeControl = 1
  FeeDenominator = 2
  MaxFeeRate = 6
  VolatilityUnit = 1
  MaxVolatility = 2
  FilterPeriod = 1
  DecayPeriod = 2
  ReductionFactor = 1
  Reach = 2
  Amounts = {0, 4}
  Offers = {0, 5, 12}
  MintPairs <- SmallMints
  LastEpoch = 1
  Trades = {12}
  MaxTrades = 1
INVARIANTS
  QuoteHonoured
  LeastSent
  FeeAccounted
  SettledWaitIsFree
CHECK_DEADLOCK FALSE
