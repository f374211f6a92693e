CONSTANTS
  DirFiles = {dir}
  ArgFiles = {arg}
  None = None
  MaxVersion = 3
  MaxQueue = 2
SPECIFICATION FairSpec
INVARIANTS NothingForgotten
PROPERTY LastSaveRuns
