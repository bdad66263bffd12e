SPECIFICATION Spec
CONSTANTS
  MinBin = 0
  MaxBin = 3
  Inline = 2
  MaxWidth = 3
  MaxExtend = 1
  Amounts = {1}
  MaxShare = 1
  MaxGrowth = 1
INVARIANT CapacityCoversWidth
PROPERTY ImplementsBand
