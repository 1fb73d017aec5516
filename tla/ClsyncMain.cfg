SPECIFICATION MainSpec
CONSTANTS
  Tasks = {t1, t2}
  LargeTasks = {t2}
  SmallWorkers = {s1}
  LargeWorkers = {l1}
  MaxRetries = 1
  NoTask = NoTask
  MaxCommands = 2
CHECK_DEADLOCK FALSE
INVARIANTS
  ExitZeroIsTrue
  VerdictIsLast
  DeliveredBeforeReturn
PROPERTIES
  IpcKept
  ReturnsOrBlocked
