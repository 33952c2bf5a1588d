CONSTANTS
  Plans <- StreamPlans
  MaxPieces = 2
  MaxWaiting = 3
  MaxHeld = 2
  MaxResends = 1
SPECIFICATION FairSpec
INVARIANTS
  TypeOK
  NothingSkipped
  AnswersKept
  AnswerInPlace
PROPERTY EventuallyShown
CHECK_DEADLOCK FALSE
