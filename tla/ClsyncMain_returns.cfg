SPECIFICATION MainSpec
CONSTANTS
  Tasks = {t1}
  LargeTasks = {}
  SmallWorkers = {s1}
  LargeWorkers = {l1}
  MaxRetries = 1
  NoTask = NoTask
  MaxCommands = 3
CHECK_DEADLOCK FALSE
PROPERTIES
  MainReturns
