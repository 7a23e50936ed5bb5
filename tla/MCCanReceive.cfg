SPECIFICATION FairSpec
CONSTANTS
  MaxArrivals = 4
  MaxRestarts = 1
INVARIANTS
  NoStaleWakeup
  RightHandler
  ExactlyOnce
  OnlyOverlapHurts
PROPERTIES
  StallIsForever
  ServedOrStalled
CHECK_DEADLOCK FALSE
