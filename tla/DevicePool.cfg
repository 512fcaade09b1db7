CONSTANTS
  Caller = {c1, c2}
  Domain = {d1, d2}
  Pointer = {p1, p2, p3}
  Sizes = {1, 2}
  LimitBytes = 3
  DeviceBytes = 3
  ThresholdBytes = 2
  Slots = 2
SYMMETRY Symmetry
SPECIFICATION Spec
INVARIANTS
  WaiterNotBehindIdle
  ChargeCoversBacking
  CachedIsReusable
