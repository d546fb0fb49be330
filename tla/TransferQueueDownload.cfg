SPECIFICATION FairSpec
CONSTANTS
  a = a
  b = b
  t1 = t1
  t2 = t2
  t3 = t3
  Oids <- MCOids
  Tuples <- MCTuples
  OidOf <- MCOidOf
  Watchers = {w1}
  AdapterNames = {"basic"}
  ServerNames = {"basic"}
  MissingOids = {}
  BatchSize = 2
  BufferDepth = 1
  MaxRetries = 1
  Upload = FALSE
  Standalone = FALSE
  BeginMayFail = TRUE
  BatchErrors = {"retriable", "later", "fatal"}
  Verdicts = {"error", "unknown", "expired", "noaction", "transfer"}
  TransferOutcomes = {"ok", "retriable", "fatal", "unprocessable"}
INVARIANTS
  WaitGroupCountsHeld
  HeldInOnePlace
  AnnouncedExactlyOnce
PROPERTIES
  NoSendOnClosed
  KeepsPromise
  WaitReturns
