SPECIFICATION Spec
CONSTANTS
  Plans <- MCPlans
  Vars = {id}
  Values = {a, b}
  Unset = Unset
INVARIANTS
  TypeOK
  Lifecycle
  StatusTellsAll
  HeaderClobberReported
  RuntimeThreaded
PROPERTIES
  SequenceEnds
CHECK_DEADLOCK FALSE
