SPECIFICATION FairSuspend
CONSTANTS
  None = None
  w1 = w1
  w2 = w2
  Workers = {w1, w2}
  ParkDeadline = 1
  LateAnswers = TRUE
  MaxPauses = 3
  MaxClock = 4
  MaxFaults = 1
  MaxDeploys = 1
  MaxLate = 1
INVARIANTS
  IInv
  EndedOnce
  AskedRightlyAlone
PROPERTIES
  WaitBoundedAlone
CHECK_DEADLOCK FALSE
