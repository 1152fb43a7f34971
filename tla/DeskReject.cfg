CONSTANTS
  None = None
  Tasks = {s1}
  Manual = {}
  Support = {s1}
  Workers = {w1}
  Limit = 1
  MaxFaults = 0
  Requests = {q1, q2}
SPECIFICATION DeskSpec
INVARIANTS
  RejectedIsNotSent
CHECK_DEADLOCK FALSE
