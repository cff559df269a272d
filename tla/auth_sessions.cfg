SPECIFICATION Spec
CONSTANTS
  User = {u1}
  Session = {s1, s2, s3}
  Legacy = {}
  Reset = {}
  Password = {p1}
  Request = {r1, r2}
  None = None
  MaxSweeps = 1
  MayFail = TRUE
INVARIANTS
  TypeOK
  SweepEndsEveryChain
  ReplacementSound
PROPERTIES
  PromiseSpec
SYMMETRY Symmetry
CHECK_DEADLOCK FALSE
