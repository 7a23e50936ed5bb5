SPECIFICATION FairSpec
CONSTANTS
  Frames <- MCFrames
  Counts <- MCCounts
INVARIANT
  DacClamps
