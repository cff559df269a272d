SPECIFICATION Spec
CONSTANTS
  Worker = {w1}
  Device = {d1}
  Rule = {}
  Alert = {a1}
  None = None
  MayFail = FALSE
INVARIANTS
  CriticalIsPushed
CHECK_DEADLOCK FALSE
