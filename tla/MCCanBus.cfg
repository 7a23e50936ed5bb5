SPECIFICATION FairSpec
CONSTANTS
  Clients = {c1, c2}
  MaxFrames = 3
INVARIANTS
  AnswersOwn
  OnlyClosedMisleads
PROPERTIES
  IsFrameQueue
  CallsReturn
CHECK_DEADLOCK FALSE
