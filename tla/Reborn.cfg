SPECIFICATION Spec
CONSTANTS
  a = a
  b = b
  empty = empty
  d1 = d1
  d2 = d2
  Payloads = {a, b, empty}
  Empty = empty
  Drainers = {d1, d2}
  MaxSent = 3
  Fds = {0, 1}
  Invalid = 99
CHECK_DEADLOCK FALSE
INVARIANTS
  DrainVerdict
  OthersKeepTheirs
  NoFdLeaked
PROPERTIES
  MailboxKept
  DrainReturns
