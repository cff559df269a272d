SPECIFICATION Spec
CONSTANTS
  User = {u1, u2}
  Session = {s1}
  Legacy = {t1}
  Reset = {k1}
  Password = {p1, p2}
  Request = {r1, r2}
  None = None
  MaxSweeps = 1
  MayFail = TRUE
INVARIANTS
  LogoutIsEffective
PROPERTIES
  BurnBeforeChange
SYMMETRY Symmetry
CHECK_DEADLOCK FALSE
