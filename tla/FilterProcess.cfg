SPECIFICATION FairSpec
CONSTANTS
  a = a
  b = b
  p1 = p1
  p2 = p2
  p3 = p3
  p4 = p4
  Paths <- MCPaths
  Oids <- MCOids
  OidOf <- MCOidOf
  PlainPaths = {p4}
  BatchSize = 1
  SkipDownloadErrors = TRUE
  Offers = {{"clean", "smudge", "delay"}, {"clean", "smudge"}, {"smudge"}}
  MaxCheckouts = 2
INVARIANTS NothingLeftDelayed NoEmptyFile
PROPERTIES CheckoutEnds
CHECK_DEADLOCK FALSE
