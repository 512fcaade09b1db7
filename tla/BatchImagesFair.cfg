SPECIFICATION FairSpec
CONSTANTS
  Callers = {c1}
  Jobs = {j1}
  None = None
  MaxInFlight = 2
  Slots = 1
  Wrap = 2
  Batches <- TwoImages
PROPERTY ActiveCallReturns
