SPECIFICATION Spec
CONSTANTS
  Device = {d1}
  Command = {c1, c2}
  Request = {r1, r2}
  None = None
  Window = 2
  MaxAhead = 0
  MaxCopies = 1
  MayFail = FALSE
INVARIANTS
  Throttled
CHECK_DEADLOCK FALSE
