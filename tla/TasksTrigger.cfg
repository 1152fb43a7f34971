CONSTANTS
  None = None
  Tasks = {t1}
  Manual = {t1}
  Support = {}
  Workers = {w1}
  Limit = 1
  MaxFaults = 0
SPECIFICATION FairTasksSpec
PROPERTIES
  CreatedTaskEnds
CHECK_DEADLOCK FALSE
