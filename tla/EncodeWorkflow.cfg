CONSTANTS
  Lower = 0
  Upper = 2
  TargetBytes = 2
  Tolerances = {0}
  Sizes = {1, 2}
  Scores = {1}
  MaxAttempts = 4
  LaneCount = 2
  ScaleThreshold = 1
SPECIFICATION Spec
INVARIANTS
  PlanCoversOwners
  PreparationOutlivesAttempts
  FrameMatchesAttempt
PROPERTY EncodeReturns
CHECK_DEADLOCK FALSE
