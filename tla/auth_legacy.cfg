SPECIFICATION Spec
CONSTANTS
  User = {u1}
  Session = {s1, s2}
  Legacy = {t1}
  Reset = {}
  Password = {p1}
  Request = {r1}
  None = None
  MaxSweeps = 1
  MayFail = FALSE
INVARIANTS
  LegacyRefreshServed
CHECK_DEADLOCK FALSE
