SPECIFICATION OutcomesSpec
CONSTANTS
  BackoffPeriod = 1
  MaximumBackoffPeriod = 2
  Frameworks = {"oci"}
  TicksPerSecond = 2
  Waits = {2, 4}
  Cooldowns = {3}
  maxRetry = 2
  MaximumRequeueFloor = 8
  MaxUpsets = 2
INVARIANT NothingDropped
CHECK_DEADLOCK FALSE
