SPECIFICATION FairSpec
CONSTANTS
  Tasks = {t1}
  LargeTasks = {}
  SmallWorkers = {s1, s2}
  LargeWorkers = {l1}
  MaxRetries = 1
  NoTask = NoTask
PROPERTIES
  LedgerKept
  IdleAnswerSound
  StopReturns
  TasksSettle
  EndIsReported
