SPECIFICATION Spec
CONSTANTS
  TAB_ROWS = 3
  HALF = 6
  VALS = 3
INVARIANTS
  DivisionDefined
  LookupInterpolates
CHECK_DEADLOCK FALSE
