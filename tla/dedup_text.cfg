SPECIFICATION DedupSpec
CONSTANTS
  BackoffPeriod = 1
  MaximumBackoffPeriod = 2
  Enqueues <- Few
  Revisited <- Requeued
INVARIANTS
  HighestPriority
CHECK_DEADLOCK FALSE
