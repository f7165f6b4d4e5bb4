SPECIFICATION FairSpec
CONSTANTS
  s1 = s1
  s2 = s2
  sfx = sfx
  Bare = Bare
  None = None
  Orphan = Orphan
  Serials = {s1}
  Suffix <- SameSuffix
  PortRange = 1
  Debounce = 2
  BackoffUnit = 1
  FailureCap = 2
  FeedCap = 2
  MaxLosses = 1
  MaxOrphans = 0
  Explicit = FALSE
PROPERTIES
  SpawnOnlyWhenSteady
  PluggedInIsNotStopped
  UnplugTakesDown
  PluggedInIsServed
  ShutdownCompletes
  OnceExits
CHECK_DEADLOCK FALSE
