SPECIFICATION Spec
CONSTANTS
  NSIG = 2
  Highs = {0, 1}
  Encodings <- MCEncodings
  Sent <- MCSent
  Nothing = Nothing
INVARIANTS
  AnswersStored
