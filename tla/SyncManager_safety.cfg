SPECIFICATION Spec
CONSTANTS
  Tasks = {t1, t2}
  LargeTasks = {}
  SmallWorkers = {s1, s2}
  LargeWorkers = {l1}
  MaxRetries = 1
  NoTask = NoTask
SYMMETRY Symmetry
INVARIANTS
  TaskInOnePlace
  ActiveIsExact
  StopLeavesNothing
  NoLostWakeup
  NoLostIdleWakeup
  ErrorLeavesNoRetry
