CONSTANTS
  a = a
  h = h
  f = f
  None = None
  Session = {a, b}
  Host = {h}
  Folder = {f}
  Pid = {1, 2}
  MaxSessions = 1
  Files <- MCFiles
SPECIFICATION Spec
INVARIANTS TypeOK CurrentOnce RunningHoldsSlot ShownIsKnown UniqueIdentity
PROPERTY KeepsOwnership
