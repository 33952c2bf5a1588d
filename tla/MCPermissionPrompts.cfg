CONSTANTS
  d = d
  e = e
  x = x
  y = y
  None = None
  Dialog = {d, e}
  Plans <- MCPlans
  Tool <- MCTool
  Id = {x}
  HookId = {x, y}
  Behavior = {allow, deny}
  Keys = 2
  MaxEdits = 2
  MaxConns = 2
  MaxProcs = 2
  LostAnswers = FALSE
SPECIFICATION Spec
CHECK_DEADLOCK FALSE
INVARIANTS TypeOK AnswerIsPressed ShownIsTaken ButtonsOwned HookHeld
PROPERTY FixedAnswerStays
SYMMETRY MCSymmetry
