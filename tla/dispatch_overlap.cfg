SPECIFICATION FairSpec
CONSTANTS
  None = None
  a = a
  b = b
  c = c
  p1 = p1
  p2 = p2
  Keys = {a, b}
  Passes = {p1, p2}
  BackoffPeriod = 1
  MaximumBackoffPeriod = 2
  Limit = 2
  Concurrency = 2
  BatchSize = 0
  MaxRetry = 2
  DispatchPeriod = 0
  PromptStarts = FALSE
  MaximumRequeueFloor = 2
  HookDelays = {1}
  EnqueueOptions <- PlainEnqueue
  RevisitPlans <- Revisits
  Families <- OwnAndOther
  MaxClock = 5
  MaxEvents = 2
  MaxFailures = 1
  MaxRevisits = 1
  MaxFaults = 1
INVARIANTS
  IInv
  ChildrenNotForgotten
PROPERTIES
  KeepsContract
  EventuallyHandled
CHECK_DEADLOCK FALSE
