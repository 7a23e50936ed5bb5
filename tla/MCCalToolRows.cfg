SPECIFICATION Spec
CONSTANTS
  e1 = e1
  e2 = e2
  Signals = {0, 1}
  Encodings <- MCEncodings
  Unfit = Unfit
  Dbcs <- MCDbcs
  Lines <- MCLines
  BadLine = BadLine
  Files <- MCFiles
  Junk = Junk
  Held <- MCHeld
  maxTabRows = 2
  maxRetries = 3
  MaxFaults = 0
INVARIANTS
  TablesStored
CHECK_DEADLOCK FALSE
