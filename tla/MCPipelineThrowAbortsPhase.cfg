SPECIFICATION Spec
CONSTANTS
  Plans <- MCPlans
  Vars = {id}
  Values = {a, b}
  Unset = Unset
INVARIANT ThrowAbortsPhase
CHECK_DEADLOCK FALSE
