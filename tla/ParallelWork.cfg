CONSTANTS
  i1 = i1
  i2 = i2
  Image = {i1, i2}
  Limit = 3
  JobLimit <- MCJobLimit
  Participants = 2
  Ceiling = 3
  Count = 3
SPECIFICATION Spec
INVARIANTS
  CallIsOver
  OnlyAdmittedThreadsRun
PROPERTY EveryImageReturns
CHECK_DEADLOCK FALSE
