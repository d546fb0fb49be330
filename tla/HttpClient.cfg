SPECIFICATION Spec
CONSTANTS
  r1 = r1
  r2 = r2
  h1 = h1
  h2 = h2
  Requests <- MCRequests
  Hosts <- MCHosts
  Origin = h1
  Configs <- MCConfigs
  MaxPassword = 2
  MaxRedirects = 1
  MaxFaults = 1
INVARIANTS
  CredsOnlyToTheirHost
  SavedCredsWereAccepted
  UnauthorizedOnlyAsGiven
PROPERTIES
  RequestEnds
CHECK_DEADLOCK FALSE
