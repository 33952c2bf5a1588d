CONSTANTS
  Plans <- BreakPlans
  MaxPieces = 2
  MaxWaiting = 3
  MaxHeld = 2
  MaxResends = 1
SPECIFICATION Spec
INVARIANT LaterLineWaits
CHECK_DEADLOCK FALSE
