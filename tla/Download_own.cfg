SPECIFICATION Spec
CONSTANTS
  w1 = w1
  w2 = w2
  a = a
  b = b
  Workers = {w1, w2}
  Target <- OwnTargets
  BodyLen = 2
  MaxLen = 3
  MaxCalls = 2
  Retries = 1
  CheckSize = {w1, w2}
  CheckHash = {w1}
  Existing = {a}
  None = None
CHECK_DEADLOCK FALSE
INVARIANTS
  PublishedIsValid
  PublishedIsClosed
  NoPartLeft
  OldFileSafe
