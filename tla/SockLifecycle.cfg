SPECIFICATION FairSpec
CONSTANTS
  Users = {u1, u2}
  LocksNum = 4
  Paths <- MCPaths
  MaxOpens = 3
INVARIANTS NamedIsOpen InitUnderLock KeptLockExcludesClose LiveSocketIsReachable
PROPERTIES ConstructorAndDestructorReturn
CHECK_DEADLOCK FALSE
