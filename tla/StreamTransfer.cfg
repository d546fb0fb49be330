SPECIFICATION Spec
CONSTANTS
  o1 = o1
  o2 = o2
  Oids <- MCOids
  NumWorkers = 2
  MaxRequests = 3
  MaxFaults = 2
INVARIANTS
  TransferredIsThere
  ShutdownComplete
PROPERTIES
  TransferReturns
CHECK_DEADLOCK FALSE
