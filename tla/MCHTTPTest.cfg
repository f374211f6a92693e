CONSTANTS
  none = none
  MaxTests = 2
  MaxRetries = 2
  MaxErrs = 2
  Cancellable = TRUE
  Atoi <- MCAtoi
  Values <- MCValues
  SuiteFiles <- MCSuiteFiles
  Canonical <- MCCanonical
  Responses <- MCResponses
  NoQuery = none
  NoDocument = none
  NoSchema = none
  NoValues = none
SPECIFICATION HTTPSpec
INVARIANTS RequestRight Judged PassedIsSaved QueriesRight
