CONSTANTS
  None = None
  Tasks = {s1, s2}
  Manual = {}
  Support = {s1, s2}
  Workers = {w1, w2}
  Limit = 1
  MaxFaults = 0
SPECIFICATION TasksSpec
INVARIANTS
  AutoSendLimit
CHECK_DEADLOCK FALSE
