SPECIFICATION FairSpec
CONSTANTS
  None = None
  e1 = e1
  e2 = e2
  w1 = w1
  w2 = w2
  o1 = o1
  Enqueuers = {e1}
  Workers = {w1}
  Observers = {o1}
  BackoffPeriod = 1
  MaximumBackoffPeriod = 2
  Lease = 1
  StartWindow = 1
  MaxRetry = 2
  BackoffDelays = {1}
  EnqueueOptions <- PlainEnqueue
  RevisitPlans <- DelayedRevisit
  RevisitDelays = {0}
  MaxClock = 14
  MaxEvents = 1
  MaxFaults = 1
  MaxRevisits = 1
  MaxFailures = 1
  MaxRefreshes = 0
PROPERTIES
  EventuallyHandled
CHECK_DEADLOCK FALSE
