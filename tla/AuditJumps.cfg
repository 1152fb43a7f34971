SPECIFICATION AuditSpec
CONSTANTS
  Absent = Absent
  Records = {r1}
  Callers = {c1, c2}
  Approvals = {"not_required", "pending"}
  MaxEvents = 3
INVARIANT NoInvalidJump
CHECK_DEADLOCK FALSE
