CONSTANTS
  r1 = r1
  i1 = i1
  i2 = i2
  None = None
  Runs = {r1}
  Instances = {i1, i2}
  RunOf <- MCRunOf
  States = {"new", "active", "done"}
  InitialState = "new"
  Transitions <- MCTransitions
  TerminalStates = {"done"}
  Keys = {k1, k2, k3}
  EventIds = {d1, d2, d3}
  EventTypes = {"terminal_outcome", "transition_completed"}
  Clients = {c1, c2}
  Preloaded = {}
  MaxVersion = 2
SYMMETRY DeliverySymmetry
SPECIFICATION FreshSpec
INVARIANTS
  TypeOK
  VersionCountsTransitions
  StateChain
  TerminalIsFinal
  FlushedIsCurrent
  SequencesContiguous
  DeliveredOnce
  ChecksSuffice
PROPERTIES
  LedgerSpec
