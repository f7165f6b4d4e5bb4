SPECIFICATION Spec
CONSTANTS
  s1 = s1
  s2 = s2
  sfx = sfx
  Bare = Bare
  None = None
  Orphan = Orphan
  Serials = {s1, s2}
  Suffix <- SameSuffix
  PortRange = 2
  Debounce = 0
  BackoffUnit = 0
  FailureCap = 1
  FeedCap = 1
  MaxLosses = 0
  MaxOrphans = 1
  Explicit = FALSE
INVARIANTS
  TypeOK
  RegistryIsThreads
  ForwardsKept
  OutputsOwned
  CleanExit
PROPERTIES
  PoolSpec
  LivesAsPromised
  OneSessionEach
CHECK_DEADLOCK FALSE
SYMMETRY Interchangeable
