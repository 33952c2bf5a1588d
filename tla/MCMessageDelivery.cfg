CONSTANTS
  Count = 3
  Plans <- MCPlans
  MaxBuffered = 2
  MaxBurst = 2
  MaxLosses = 2
  QueueMax = 1
  FileLinks = {TRUE, FALSE}
  MaxConns = 2
  MaxRuns = 2
  MaxFaults = 2
SPECIFICATION Spec
CHECK_DEADLOCK FALSE
INVARIANTS TypeOK InOrderOnce ButtonsGo NothingStuck
PROPERTY KeepsMessages
