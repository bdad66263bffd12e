SPECIFICATION FairTlvSpec
CONSTANTS
  TypeIndex = 165
  TlvStart = 166
  HeaderLen = 4
  ConfigNeeds = 108
  Lengths = {0, 32, 107, 108, 130}
  MaxEntries = 3
  Cuts = {0, 1, 2, 4, 5, 22, 23, 108, 112, 140, 200}
INVARIANTS
  InBounds
  FeeIsRead
PROPERTY Ends
CHECK_DEADLOCK FALSE
