SPECIFICATION FairSpec
CONSTANTS
  Ids = {i1, i2}
  Bodies = {b1, b2}
  TX_RETRIES = 2
INVARIANTS
  SentOnce
  LeftoverOnce
  CleansUp
PROPERTIES
  CallReturns
