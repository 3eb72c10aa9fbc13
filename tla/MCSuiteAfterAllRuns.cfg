SPECIFICATION Spec
CONSTANTS
  Scopes <- MCScopes
  Suites <- MCSuites
  MaxRows = 2
  NoSummary = NoSummary
PROPERTY AfterAllRuns
CHECK_DEADLOCK FALSE
