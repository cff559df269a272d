SPECIFICATION Spec
CONSTANTS
  Device = {d1}
  Command = {c1, c2, c3}
  Request = {r1, r2}
  None = None
  Window = 2
  MaxAhead = 1
  MaxCopies = 2
  MayFail = TRUE
INVARIANTS
  TypeOK
  AuditIsTrue
  OnlyOverlapEscapes
SYMMETRY Symmetry
CHECK_DEADLOCK FALSE
