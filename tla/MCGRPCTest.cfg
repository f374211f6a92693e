CONSTANTS
  MaxTests = 2
  MaxRetries = 2
  MaxErrs = 2
  Cancellable = FALSE
  SuiteFiles <- MCSuiteFiles
  Lower <- MCLower
  Answers = {"a", "b"}
  Codes = {"OK", "NotFound"}
  Headers <- MCHeaders
  MaxAnswers = 2
SPECIFICATION GRPCSpec
INVARIANTS RequestsRight GRPCJudged
PROPERTY GRPCRunEnds
