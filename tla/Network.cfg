SPECIFICATION Spec
CONSTANTS
  Retries = 2
  MaxCalls = 3
CHECK_DEADLOCK FALSE
INVARIANTS
  RequestIsItsOwn
  FormsFreed
PROPERTY
  OutcomeIsKnown
