CONSTANTS
  Lower = 0
  Upper = 4
  TargetBytes = 3
  Tolerances = {0, 1}
  Sizes = {1, 2, 4, 5}
  Scores = {1, 2}
  MaxAttempts = 6
SPECIFICATION SearchSpec
INVARIANTS
  IntervalsWithinBound
  PredictionCovers
  FindsBestCandidate
CHECK_DEADLOCK FALSE
