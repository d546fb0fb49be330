SPECIFICATION FairSpec
CONSTANTS
  j1 = j1
  j2 = j2
  j3 = j3
  Jobs = {j1, j2, j3}
  Concurrency = 3
  ChanDepth = 1
  MaxBegins = 1
  InvalidJobs = {j3}
  StartMayFail = TRUE
  AuthKinds = {"response", "firstRead"}
INVARIANTS
  OnlyFirstWorkerUntilSignal
PROPERTIES
  EndReturns
  KeepsContract
