SPECIFICATION Spec
CONSTANTS
  Process = {i1, i2}
  None = None
  TTL = 5
  MinRenew = 2
  MaxLag = 1
  MaxLatency = 1
  MaxBehind = 0
INVARIANTS
  NoDoubleRun
