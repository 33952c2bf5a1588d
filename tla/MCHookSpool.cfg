CONSTANTS
  Session = {a}
  MaxEvents = 3
  Turn = {2, 3}
  Unread = {3}
  MaxTurnFiles = 1
  MaxPerSession = 2
  MaxFiles = 2
  TurnMaxAge = 1
  MaxAge = 2
  DedupTtl = 2
  DedupMax = 4
  MaxTime = 3
  MaxRestarts = 1
SPECIFICATION FairSpec
CHECK_DEADLOCK FALSE
INVARIANTS TypeOK TurnHandledOnce HandledInOrder
PROPERTY KeptIsHandled
