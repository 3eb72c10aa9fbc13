SPECIFICATION Spec
CONSTANTS
  a = a
  b = b
  Reqs = {a, b}
  Plan <- MCPlan
  Off = {b}
  MaxRuns = 2
  NoRun = NoRun
INVARIANT TabShowsRunInFlight
CHECK_DEADLOCK FALSE
