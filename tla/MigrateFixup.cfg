SPECIFICATION Spec
CONSTANTS
  o1 = o1
  o2 = o2
  o3 = o3
  p = p
  q = q
  xe = xe
  main = main
  topic = topic
  before = before
  tagged = tagged
  after = after
  origin = origin
  prePush = prePush
  postMerge = postMerge
  NoExt = NoExt
  NoBlob = NoBlob
  NoRef = NoRef
  HookTypes <- MCHookTypes
  PrePush = prePush
  PathOrder <- MCPathOrder
  Ext <- MCExt
  Oids = {o1, o2, o3}
  Small = {o1}
  LocalRefs <- MCLocalRefs
  TagRefs = {before, tagged, after}
  Remotes = {origin}
  Scenarios <- Fixups
INVARIANT
  FixupConverts
CHECK_DEADLOCK FALSE
