SPECIFICATION Spec
CONSTANTS
  One = 12
  ShareUnit = 2
  Scale = 1000
  MinBin = 0
  MaxBin = 6
  BinsPerArray = 2
  OpenWidth = 2
  ChunkWidth = 3
  Requests <- EdgyRequest
  Holdings <- EveryHolding
  LateCopies = FALSE
  MaxTimeouts = 1
  MaxPlans = 1
INVARIANT
  StepFitsPacket
CHECK_DEADLOCK FALSE
