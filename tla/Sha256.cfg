SPECIFICATION FileSpec
CONSTANTS
  Transform <- Collect
  InitialState <- Nothing
  Lengths <- Boundaries
  Content <- Letters
  BufferSize = 50
CHECK_DEADLOCK FALSE
INVARIANTS
  DigestOfWholeFile
  PaddedRight
  DigestIsSha256
