SPECIFICATION FileSpec
CONSTANTS
  Bases = {".mounted", "a"}
  MaxLen = 2
  MaxCount = 2
CHECK_DEADLOCK FALSE
INVARIANTS
  PositionKnown
  OpenedIsNamed
