SPECIFICATION HttpSpec
CONSTANTS
  w1 = w1
  w2 = w2
  HttpWorkers <- MCWorkers
  Size = 4
  MaxFaults = 4
INVARIANTS
  StoreValid
PROPERTIES
  SuccessMeansDone
  EventuallyTransferred
CHECK_DEADLOCK FALSE
