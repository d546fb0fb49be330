SPECIFICATION Spec
CONSTANTS
  u1 = u1
  u2 = u2
  a = a
  b = b
  obj = obj
  Users <- MCUsers
  Paths <- MCPaths
  Oids = {obj}
  OidOf <- MCOidOf
  Contents <- AllContents
  Lockable = {a}
  SshUsers = {u1}
  PageSize = 1
  Limits = {0, 1}
  MaxLocks = 2
  MaxCommands <- MCMaxCommands
INVARIANTS
  OwnLocksCached
  ListingComplete
  PushRespectsLocks
  NoForeignWrite
CHECK_DEADLOCK FALSE
