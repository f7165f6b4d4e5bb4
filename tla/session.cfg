SPECIFICATION FairSpec
CONSTANTS
  Backends = {"hyprland", "labwc", "kwin"}
  PacketCap = 2
INVARIANTS
  TypeOK
  Guarded
  ThreadsWithinSession
PROPERTIES
  LivesAsPromised
  StopsWhenAsked
  IdleOutputDrains
CHECK_DEADLOCK FALSE
