CONSTANTS
  r1 = r1
  i1 = i1
  None = None
  Runs = {r1}
  Instances = {i1}
  RunOf <- MCRunOf
  States = {"new", "sent", "done"}
  InitialState = "new"
  Transitions <- MCTransitions
  TerminalStates = {"done"}
  Keys <- MCKeys
  EventIds <- MCKeys
  EventTypes = {"terminal_outcome", "transition_completed", "approval_requested", "approval_resolved", "failure_detected", "decision_produced"}
  Clients = {c1, c2, c3}
  Preloaded = {c1}
  MaxVersion = 1
  Decisions = {d1}
  DeliveryKeys = {k1, k2}
  ResolutionKeys = {x1, x2}
  Adapters = {"mail", "calendar"}
  Natives <- RaceNatives
  Workflow <- MCWorkflow
  Verdicts = {"approved", "rejected"}
  MaxFailures = 1
SPECIFICATION FairApprovalsSpec
PROPERTIES
  VerdictIsFinal
  EveryCallEnds
CHECK_DEADLOCK FALSE
