SPECIFICATION FairReconcilers
CONSTANTS
  Versions = {1, 2}
  PathOptions <- SomeOptions
  maxCommits = 2
  maxNoDiffIterations = 2
  MaxEvents = 2
  MaxFaults = 1
INVARIANTS
  IInv
  TellsTheTruth
  RunsBounded
PROPERTIES
  EndsStay
  Converges
  PushesCease
CHECK_DEADLOCK FALSE
