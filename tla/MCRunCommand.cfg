CONSTANTS
  n1 = n1
  n2 = n2
  j1 = j1
  j2 = j2
  t1 = t1
  t2 = t2
  t3 = t3
  u1 = u1
  u2 = u2
  u3 = u3
  Names = {n1, n2}
  Objs = {j1, j2}
  Timers = {t1, t2, u1, u2}
  Owner <- PairTimers
  LateStores = FALSE
  NoObj = NoObj
  NoTimer = NoTimer
  Paths <- TwoSuites
  HasNotifier = TRUE
SPECIFICATION CmdFairSpec
INVARIANTS ReportsInOrder AllOrNothing
PROPERTIES SuiteRunsAlone OthersGoOn ShutsDown
