CONSTANTS
  j1 = j1
  j2 = j2
  t1 = t1
  t2 = t2
  t3 = t3
  u1 = u1
  u2 = u2
  u3 = u3
  Names = {n1, n2}
  Objs = {j1, j2}
  Timers = {t1, t2, t3, u1, u2, u3}
  Owner <- JobTimers
  LateStores = TRUE
  NoObj = NoObj
  NoTimer = NoTimer
SPECIFICATION Spec
SYMMETRY Symmetry
INVARIANTS TypeOK OneChain QuietBeforeStart NeverLost
PROPERTIES CancelIsFinal ImplementsJobCycle
