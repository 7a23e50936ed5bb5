SPECIFICATION FairSpec
CONSTANTS
  Size = 4
  PAGE_SIZE = 2
  BAILOUT = 2
  MaxLength = 3
  Byte = {0, 1}
  NoRequest = NoRequest
INVARIANTS
  ReadyWhenAddressed
PROPERTIES
  IsNvMemory
  TimesOutForCause
  CallReturns
