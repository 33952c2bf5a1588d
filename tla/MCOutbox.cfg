CONSTANTS
  t = t
  u = u
  m = m
  None = None
  Place = {t, u}
  Message = {m}
  Workloads <- MCWorkloads
  Capacity = 1
  MaxUnmetered = 1
  MaxText = 2
SPECIFICATION FairSpec
CHECK_DEADLOCK FALSE
INVARIANTS TypeOK WaitersHeld TopicOrder LinesWaitForRestart NewestTextStays NewMessageServed
PROPERTY EveryJobAnswered
