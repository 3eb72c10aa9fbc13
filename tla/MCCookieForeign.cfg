SPECIFICATION Spec
CONSTANTS
  Workspaces = {shop, bank}
  Runs = {1, 2}
  MaxCommands = 4
  NoPath = NoPath
INVARIANT NoForeignCookies
CHECK_DEADLOCK FALSE
