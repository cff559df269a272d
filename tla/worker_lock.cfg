SPECIFICATION Spec
CONSTANTS
  Process = {i1, i2}
  None = None
  TTL = 6
  MinRenew = 2
  MaxLag = 0
  MaxLatency = 1
  MaxBehind = 1
INVARIANTS
  TypeOK
  RunnerOwnsLease
PROPERTIES
  OustedStops
