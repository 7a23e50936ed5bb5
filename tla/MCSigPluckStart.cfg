SPECIFICATION PluckSpec
CONSTANTS
  BYTE = 8
  WORD = 32
  MaxDlc = 8
INVARIANT
  StartAsInDbc
CHECK_DEADLOCK FALSE
