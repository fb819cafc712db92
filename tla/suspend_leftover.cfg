SPECIFICATION Spec
CONSTANTS
  None = None
  Workers = {w1}
  ParkDeadline = 1
  LateAnswers = FALSE
  MaxPauses = 3
  MaxClock = 4
  MaxFaults = 2
  MaxDeploys = 1
  MaxLate = 0
INVARIANTS
  AnswerMatchesPause
CHECK_DEADLOCK FALSE
