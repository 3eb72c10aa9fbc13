CONSTANTS
  k1 = k1 k2 = k2 p1 = p1 p2 = p2 r1 = r1 n1 = n1 n2 = n2 c1 = c1 c2 = c2 w1 = w1 w2 = w2
  None = None
  Keys = {k1, k2} Servers = {None} Blobs <- MCBlobs Days = {0, 1, 2, 3}
  TrialDays = 2 RecheckAfter = 1 MaxAsks = 1 MaxFaults = 1
  Projects = {p1, p2} Requests <- MCRequests RootOf <- MCRootOf Stored <- MCStored
  TypedDocs <- MCTyped Checks = {c1, c2} Unreadable = {p2}
  MaxList = 3 MaxSteps = 4 MaxMisses = 1
  Releases <- MCReleases Builds = {"b0", "b1", "b2"} Platforms = {"restart", "opens"}
  MaxChecks = 2 MaxBreaks = 2
  Protocols = {"ws", "sse"} MaxConnections = 2 MaxOut = 1 MaxIn = 1 MaxClicks = 1
  Workspaces = {w1, w2} Envs = {"dev", "prod"} Methods = {"GET", "POST"} Statuses = {299}
  Filters <- MCFilters Sizes = {2} MaxBody = 1 Limit = 2 MaxRuns = 3 MaxAtOnce = 1 MaxTurns = 1
  Scenes <- MCScenes Vars = {"x", "y"}
SPECIFICATION MCSpec
INVARIANTS EditorSound FilesSound ServicesSound ConsoleSound HistorySound
CHECK_DEADLOCK FALSE
