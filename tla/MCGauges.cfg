SPECIFICATION FairSpec
CONSTANTS
  Frames <- MCFrames
  Counts <- MCCounts
INVARIANTS
  OutputsFollow
  NoLateEdge
PROPERTIES
  EdgesOnTime
  TimersServed
