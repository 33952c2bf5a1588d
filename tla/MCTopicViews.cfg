CONSTANT
  Plans <- MCPlans
SPECIFICATION Spec
CHECK_DEADLOCK FALSE
INVARIANTS TopicsOwned ViewsAlive HomeIsRight
