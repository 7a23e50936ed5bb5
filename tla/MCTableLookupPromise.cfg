SPECIFICATION Spec
CONSTANTS
  TAB_ROWS = 3
  HALF = 6
  VALS = 3
INVARIANT
  LookupAsPromised
CHECK_DEADLOCK FALSE
