SPECIFICATION FairService
CONSTANTS
  Callers = {r1, r2, r3}
  threshold = 2
  baseDelay = 1
  maxDelay = 2
  MaxFailures = 4
  MaxUnreported = 1
  Calls = {c1, c2}
  DrainBackstop = 2
  Grace = 3
  BackoffPeriod = 1
  MaximumBackoffPeriod = 2
  Enqueues <- FloorMix
  Revisited <- NoOptions
  Second = 2
  Paces <- SomePaces
  Keys = {k1, k2}
  tick = 2
  period = 4
  Periods = 1
  Reconcilers = {w1, w2}
  Branches = {"fix"}
  Dirs = {d1, d2}
  maxFetches = 1
  Frameworks <- AllFrameworks
  TicksPerSecond = 2
  Waits = {1, 3}
  Cooldowns = {1, 4}
  maxRetry = 2
  MaximumRequeueFloor = 2
  MaxUpsets = 5
  Requests = {q1, q2}
  Repos = {p1, p2}
  maxTokenCacheTTL = 4
  Lifetimes = {0, 2, 9}
  Managers = {m1, m2}
  MaxSaves = 2
  MaxPersonComments = 1
  MaxLinearFaults = 1
  TeamItems = {1, 2, 3}
  issuesPageSize = 1
  MaxTouches = 4
  Writers = {s1, s2}
  Types = {t1, t2}
  Findings = {f1, f2}
  retryAttempts = 2
  MaxWrites = 2
  MaxRegistryFaults = 1
  maxAttempts = 2
  MaxBranchEvents = 2
  MaxBranchFaults = 1
  Clients = {g1, g2}
  ObjectNames = {1, 2, 3, 4, 5}
  ClientNames = {1, 2}
  listLimit = 1
  MaxPuts = 2
  MaxStoreFaults = 2
INVARIANTS
  TypeOK
  DrainSafe
  EnqueuesAgree
  NoKeyMissed
  TestsHold
  SharedKept
PROPERTIES
  HostsSpared
  EveryCallerServed
  LeaseHonoured
  PushedOnlyOwn
CHECK_DEADLOCK FALSE
