SPECIFICATION FairSpec
CONSTANTS
  MinBin = 0
  MaxBin = 4
  Inline = 2
  MaxExtend = 1
  ChunkWidth = 2
  BinsPerArray = 3
  LateCopies = TRUE
  MaxTimeouts = 1
  MaxPending = 1
  RangeWidths = {3}
INVARIANTS
  NeverRefused
  FinishedAtGoal
PROPERTIES
  KeepsTheOverlap
  MoveCompletes
CHECK_DEADLOCK FALSE
