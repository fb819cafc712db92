SPECIFICATION Spec
CONSTANTS
  None = None
  a = a
  b = b
  c = c
  p1 = p1
  p2 = p2
  Keys = {a, b, c}
  Passes = {p1, p2}
  BackoffPeriod = 1
  MaximumBackoffPeriod = 2
  Limit = 2
  Concurrency = 2
  BatchSize = 0
  MaxRetry = 2
  DispatchPeriod = 1
  PromptStarts = TRUE
  MaximumRequeueFloor = 2
  HookDelays = {1}
  EnqueueOptions <- UrgentAndPlain
  RevisitPlans <- NoPlans
  Families <- NoFamilies
  MaxClock = 3
  MaxEvents = 2
  MaxFailures = 0
  MaxRevisits = 0
  MaxFaults = 0
SYMMETRY PassSymmetry
INVARIANTS
  ConcurrencyCap
PROPERTIES
  BestReady
CHECK_DEADLOCK FALSE
