SPECIFICATION Spec
CONSTANTS
  a = a
  b = b
  Reqs = {a, b}
  Plan <- MCPlan
  Off = {b}
  MaxRuns = 2
  NoRun = NoRun
INVARIANTS
  TypeOK
  ViewIsOwn
  StopReaches
PROPERTIES
  RunsLeaveView
CHECK_DEADLOCK FALSE
