SPECIFICATION Spec
CONSTANTS
  Callers = {c1, c2}
  Jobs = {j1}
  None = None
  MaxInFlight = 2
  Slots = 1
  Wrap = 2
  Batches <- BatchesForSafety
SYMMETRY Symmetry
INVARIANTS TypeOK EachImageOnce JobOutlivesWorkers StopsOnlyWhenDrained NobodyBlocksWithSlot
PROPERTY ImplementsBatchDriver
