SPECIFICATION BackOfficeSpec
CONSTANTS
  Absent = Absent
  None = None
  Records = {r1}
  Callers = {c1, c2}
  Approvals = {"not_required", "pending"}
  MaxEvents = 5
  Decisions <- MCDecisions
  Contexts <- MCContexts
  States <- MCStates
  Unset = Unset
  Names <- MCNames
  Verbs = {"send"}
  Definitions <- MCDefinitions
  Nothing = Nothing
  Answers <- MCAnswers
  Vocabularies <- MCVocabularies
  Mails = {1, 2, 3}
  Sweeps = {v1, v2}
  FetchLimit = 2
  MaxSweepFaults = 1
  Deliveries = {d1, d2}
  ReportValues <- MCReports
  NoReport = NoReport
  Text = Text
  MaxCycleFaults = 1
  Polls = {p1, p2, p3}
  Revenues = {3, 4}
  Balances = {b1, b2}
  NoSnapshot = NoSnapshot
  Calls = {tweet, activity}
  FlushesFirst = {activity}
  StripeEvents = {stripe}
  Attempts = {a1, a2}
  MaxWriteFaults = 2
  Requests = {q1, q2}
  Slugs = {s1, s2}
  LastSecond = 1
INVARIANTS
  BackOfficeTypeOK
  ExecutionIsAuthorized
  GatesAgree
  OnlySandboxExecutes
  MoveIsCanonical
  SchemaIsTheContract
  LostByFaults
  SnapshotConsistent
  PullRequestIsItsOwn
PROPERTIES
  UnreadBecomesTask
  MorningEnqueues
  EveningReports
  RecordsFollowEffects
CHECK_DEADLOCK FALSE
