SPECIFICATION FairSpec
CONSTANTS
  Callers = {c1, c2}
  Jobs = {j1}
  None = None
  MaxInFlight = 2
  Slots = 1
  Wrap = 2
  Batches <- OneImage
PROPERTIES ActiveCallReturns ShutdownReturns
