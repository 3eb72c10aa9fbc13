SPECIFICATION Spec
CONSTANTS
  Workspaces = {shop, bank}
  Runs = {1, 2}
  MaxCommands = 4
  NoPath = NoPath
INVARIANTS
  TypeOK
  OwnCookiesUnlessStraddled
  SettledJarIsSaved
CHECK_DEADLOCK FALSE
