CONSTANTS
  Commands = {"run", "exec", "watch"}
  FileSettings <- AllSettings
  ConfSettings <- Entries
  Flags <- AllFlags
  Tests = {"a", "b"}
  SuiteFiles <- MCSuiteFiles
  Path <- MCPath
  Files <- MCFiles
  SuitePath <- MCSuitePath
  Nesting <- MCNesting
  MaxNesting = 4
  MaxOpen = 10
SPECIFICATION LoadSpec
CHECK_DEADLOCK FALSE
INVARIANTS Layered ScheduledByRule MessagesRight SchemaRefsFound
