SPECIFICATION Spec
CONSTANTS
  o1 = o1
  o2 = o2
  o3 = o3
  pa = pa
  pb = pb
  main = main
  topic = topic
  NoOid = NoOid
  Oids = {o1, o2, o3}
  PathOrder <- MCPathOrder
  Branches = {main, topic}
  Main = main
  Operations <- MCOperations
  Scenarios <- MCScenarios
INVARIANTS
  PushedIsOnServer
  PullComplete
PROPERTIES
  PrunesOnlyPushed
  PruneKeepsUsed
  FetchedRecentKept
CHECK_DEADLOCK FALSE
