SPECIFICATION FairAgentService
CONSTANTS
  MaxTurns = 3
  ToolCallConcurrency = 2
  MaxRetries = 1
  ToolTurns <- OneQuestion
  Budgets = {1, 4}
  NudgeAfter = 2
  maxEmptyResponseRetries = 1
  RuleKeys = {1, 2}
  Severities = {1, 2}
  Backlogs <- SomeBacklogs
  Sweeps = {s1, s2}
  maxDesiredIssues = 1
  defaultMaxExistingIssues = 100
  Numbers = {1, 2, 3, 4}
  MaxHappenings = 1
  MaxBrokenSweeps = 1
  Heads = {1, 2}
  Modes = {"fix", "config"}
  Reviews = {v1, v2}
  MaxPullEvents = 2
  MaxReviewFaults = 1
  Paths = {p, q}
  Texts <- SomeTexts
  AllTexts <- LongTexts
  Patterns <- SomePatterns
  Written <- SomeWritten
  bufSize = 2
  Items <- SomeItems
  Limits = {2, 3}
  maxChar = 2
  maxFindingSearchMatches = 4
  Checks = {k}
  Threads = {t}
  Callers = {c1, c2}
  MaxVersions = 2
  Tracers <- SomeTracers
  TracedCalls = {d1, d2}
  MaxTracedTurns = 2
  MaxPauses = 1
  ceMaxInflight = 1
  ceMaxRetry = 1
  maxPayloadBytes = 4
  Payloads <- SomePayloads
INVARIANTS
  AgentServiceTypeOK
  RequestsPaired
  NeverToldAndGoesOn
  AcceptedAsLeft
  PausesSound
  PartsSound
PROPERTIES
  EverythingComesRight
  StepsSound
CHECK_DEADLOCK FALSE
