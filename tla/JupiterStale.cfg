SPECIFICATION AmmSpec
CONSTANTS
  MinIndex <- Lowest
  MaxIndex = 2
  SwapReach = 2
  MaxArraysWalked = 4
  ParseMayFail = TRUE
  MaxChanges = 2
INVARIANTS
  WalksWithinNamed
CHECK_DEADLOCK FALSE
