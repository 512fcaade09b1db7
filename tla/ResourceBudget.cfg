CONSTANTS
  Limit = 3
  Callers = {c1, c2, c3}
  Reservations = {r1, r2}
  Tickets = {t1, t2}
  Classes = {k1, k2}
  All = All
  None = None
  Sizes = {1, 2}
SPECIFICATION Spec
SYMMETRY Symmetry
INVARIANTS
  TypeOK
  WithinLimit
  UsageMatchesTickets
  BytesAreConserved
  PeaksCoverUsage
  NoLostWakeup
  QueueHoldsWaiters
PROPERTY ImplementsFifoAdmission
