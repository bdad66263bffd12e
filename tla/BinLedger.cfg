CONSTANTS
  One = 2
  GrowthScale = 16
  FeePrecision = 4
  BasisPointMax = 4
  U64Max = 63
  Price = 3
  QuoteOnly = TRUE
  Rates = {2}
  ProtocolShare = 2
  Bps = {2, 4}
  Deposits = {0, 2}
  SwapSizes = {2, 4}
  MaxReserve = 4
  U128Max = 12
SPECIFICATION Spec
INVARIANTS TypeOK VaultSolvent SupplyIsBacked
PROPERTIES ShareValueNeverFalls UnclaimedFeeIsKept
CHECK_DEADLOCK FALSE
