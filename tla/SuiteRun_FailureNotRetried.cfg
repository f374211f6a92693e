CONSTANTS
  MaxTests = 1
  MaxRetries = 2
  MaxErrs = 1
  Cancellable = FALSE
SPECIFICATION Spec
PROPERTIES FailureNotRetried
