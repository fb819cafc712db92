SPECIFICATION Spec
CONSTANTS
  None = None
  e1 = e1
  e2 = e2
  w1 = w1
  w2 = w2
  o1 = o1
  Enqueuers = {e1}
  Workers = {w1, w2}
  Observers = {o1}
  BackoffPeriod = 1
  MaximumBackoffPeriod = 2
  Lease = 1
  StartWindow = 1
  MaxRetry = 2
  BackoffDelays = {1}
  EnqueueOptions <- PlainEnqueue
  RevisitPlans <- NoPlans
  RevisitDelays = {}
  MaxClock = 4
  MaxEvents = 2
  MaxFaults = 1
  MaxRevisits = 0
  MaxFailures = 1
  MaxRefreshes = 1
SYMMETRY Symmetry
INVARIANTS
  IInv
  NoLostWork
  ExclusiveLease
PROPERTIES
  LiveLeaseKept
  ImplementsContract
CHECK_DEADLOCK FALSE
