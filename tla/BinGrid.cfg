SPECIFICATION GridSpec
CONSTANTS
  ScaleOffset = 10
  Exp2Table <- MCTable
  Ln2 = 709
  MinTaper = 973
  StepUnitsPerOne = 256
  MinStep = 1
  MaxStep = 10
  MaxBinPerArray = 6
  BitmapBits = 32
  Widths = {3, 4, 7, 12, 20, 33, 45, 58}
  Tapers <- MCTapers
  Bottoms <- MCBottoms
  Tops <- MCTops
  BitmapWordBits = 8
  Grids <- MCGrids
  MaxArrays = 3
  MaxTouched = 2
INVARIANTS
  EveryBinDerives
  PricesNeverFall
  EndsBoundSteps
  UnitOctave
  CacheIsLadder
  ReadersAgree
PROPERTIES
  IsABook
CHECK_DEADLOCK FALSE
