SPECIFICATION PluckFairSpec
CONSTANTS
  BYTE = 8
  WORD = 32
  MaxDlc = 8
INVARIANTS
  PluckTypeOK
  PlucksValue
  FailsOutside
  ReadsWithinFrame
PROPERTIES
  Ends
CHECK_DEADLOCK FALSE
