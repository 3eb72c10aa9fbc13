SPECIFICATION Spec
CONSTANTS
  Scopes <- MCScopes
  Suites <- MCSuites
  MaxRows = 2
  NoSummary = NoSummary
INVARIANTS
  TypeOK
  HooksBracket
  RowsIsolated
  BailStops
PROPERTIES
  ImplementsStream
  QuietAfterCancel
  RunEnds
CHECK_DEADLOCK FALSE
