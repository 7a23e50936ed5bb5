SPECIFICATION PluckSpec
CONSTANTS
  BYTE = 8
  WORD = 32
  MaxDlc = 8
INVARIANT
  SignRespected
CHECK_DEADLOCK FALSE
