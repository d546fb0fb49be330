SPECIFICATION KVSpec
SYMMETRY Symmetric
CONSTANTS
  p1 = p1
  p2 = p2
  p3 = p3
  k1 = k1
  k2 = k2
  x = x
  Procs = {p1, p2, p3}
  Keys = {k1, k2}
  Values = {x}
  MaxChanges <- Bounds
INVARIANTS
  NoLostUpdate
  CopyIsBasePlusLog
  SameVersionSameData
CHECK_DEADLOCK FALSE
