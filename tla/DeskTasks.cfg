CONSTANTS
  None = None
  Tasks = {t1, s1}
  Manual = {t1}
  Support = {s1}
  Workers = {w1, w2}
  Limit = 1
  MaxFaults = 1
  Requests = {q1, q2}
SPECIFICATION FairDeskSpec
INVARIANTS
  DeskTypeOK
  InProgressIsHeld
  RowMatchesLastRun
  SentOrAsked
  SentIsRecorded
  ApprovedIsSent
  RepliesBounded
PROPERTIES
  EnqueuedTaskEnds
  ImplementsQueue
CHECK_DEADLOCK FALSE
