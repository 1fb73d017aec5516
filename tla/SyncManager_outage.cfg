SPECIFICATION FairSpec
CONSTANTS
  Tasks = {t1}
  LargeTasks = {}
  SmallWorkers = {s1}
  LargeWorkers = {l1}
  MaxRetries = 1
  NoTask = NoTask
PROPERTIES
  TasksSurviveOutage
