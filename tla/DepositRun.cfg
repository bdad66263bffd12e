SPECIFICATION FairSpec
CONSTANTS
  One = 12
  ShareUnit = 2
  Scale = 1000
  MinBin = 0
  MaxBin = 6
  BinsPerArray = 2
  OpenWidth = 2
  ChunkWidth = 3
  Requests <- EveryRequest
  Holdings <- EveryHolding
  LateCopies = TRUE
  MaxTimeouts = 1
  MaxPlans = 2
INVARIANTS
  NothingTwice
  PlacesThePlan
  OnlyDustStays
  LegalIsAccepted
PROPERTY
  EndsWhereItWasPlanned
CHECK_DEADLOCK FALSE
