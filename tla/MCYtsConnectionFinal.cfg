SPECIFICATION Spec
CONSTANTS
  Timers = {t1, t2}
  NoTimer = NoTimer
  MaxCalls = 2
  AccountLags = FALSE
SYMMETRY Symmetry
INVARIANTS
  DisconnectFinal
CHECK_DEADLOCK FALSE
