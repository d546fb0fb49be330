SPECIFICATION Spec
CONSTANTS
  a = a
  b = b
  t1 = t1
  t2 = t2
  t3 = t3
  Oids <- MCOids
  Tuples <- MCTuples
  OidOf <- MCOidOf
  Watchers = {}
  AdapterNames = {"basic", "tus"}
  ServerNames = {"basic", "tus", "unregistered"}
  MissingOids = {b}
  BatchSize = 1
  BufferDepth = 1
  MaxRetries = 1
  Upload = TRUE
  Standalone = FALSE
  BeginMayFail = TRUE
  BatchErrors = {"retriable", "fatal"}
  Verdicts = {"error", "unknown", "noaction", "transfer", "omitted"}
  TransferOutcomes = {"ok", "retriable", "fatal", "unprocessable"}
INVARIANTS
  NoSilentLoss
CHECK_DEADLOCK FALSE
