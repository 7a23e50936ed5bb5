SPECIFICATION FairSpec
CONSTANTS
  Frames <- MCFrames
  Counts <- MCCounts
PROPERTY
  SpeedRateExact
