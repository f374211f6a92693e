CONSTANTS
  MaxTests = 3
  MaxRetries = 3
  MaxErrs = 2
  Cancellable = TRUE
SPECIFICATION FairSpec
INVARIANTS TypeOK CountAgrees LastAttemptOnly AllAttemptsUsed
PROPERTIES ImplementsVerdict RunEnds
