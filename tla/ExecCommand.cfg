CONSTANTS
  MaxTests = 2
  MaxRetries = 2
  MaxErrs = 1
  Cancellable = FALSE
  MaxSuites = 2
SPECIFICATION ExecFairSpec
INVARIANTS ExecTypeOK ExitStatus EverySuite FailuresHeard NamesFailedTests
PROPERTIES ExecEnds
