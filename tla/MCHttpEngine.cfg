SPECIFICATION Spec
CONSTANTS
  Origins = {"api:443", "api:8080", "other:443"}
  Hosts = {"api", "other"}
  HostOf <- MCHostOf
  Paths = {"a"}
  MaxRedirects = 2
  Requests <- MCRequests
  InitialJars = {{}}
  NoLocation = NoLocation
INVARIANTS
  TypeOK
  LegBudget
  CredentialsStayWithOrigin
  RedirectsFaithful
  CookiesFollowHost
PROPERTIES
  SilentAfterCancel
  Terminates
CHECK_DEADLOCK FALSE
