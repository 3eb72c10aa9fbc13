SPECIFICATION Spec
CONSTANTS
  Runs = {r1, r2}
  Keys = {dev, prod}
  Targets = {users, health}
  Protected = {users}
  Lifetime = 3
  Reserve = 1
  MaxLatency = 1
  MaxTime = 2
  NoRun = NoRun
  NoToken = NoToken
INVARIANTS
  TypeOK
  SerializedRefresh
  TokenOfOwnKey
  TokenOutlivesCall
PROPERTIES
  EveryRunReturns
CHECK_DEADLOCK FALSE
