CONSTANTS
  Limit = 3
  Permits = {p1, p2, p3, p4}
  Groups = {g1, g2}
SPECIFICATION Spec
SYMMETRY Symmetry
INVARIANTS
  TypeOK
  WithinLimit
  CountersMatchHolders
  PeaksCoverCounters
  QueueHoldsWaiters
  NoLostWakeup
PROPERTY ImplementsFifoAdmission
