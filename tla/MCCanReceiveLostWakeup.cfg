SPECIFICATION FairSpec
CONSTANTS
  MaxArrivals = 2
  MaxRestarts = 1
PROPERTIES
  EveryFrameServed
CHECK_DEADLOCK FALSE
