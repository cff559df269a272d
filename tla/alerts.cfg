SPECIFICATION Spec
CONSTANTS
  Worker = {w1, w2}
  Device = {d1}
  Rule = {r1}
  Alert = {a1, a2}
  None = None
  MayFail = TRUE
INVARIANTS
  TypeOK
  OneActive
  CycleSettles
PROPERTIES
  PushesOnce
  ClearedIsHistory
  MuteOutlivesAlert
SYMMETRY Symmetry
CONSTRAINT Explored
CHECK_DEADLOCK FALSE
