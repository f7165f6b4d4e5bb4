SPECIFICATION FairSpec
CONSTANTS
  Backends = {"hyprland", "labwc", "kwin"}
  PacketCap = 2
PROPERTIES
  DisconnectEnds
CHECK_DEADLOCK FALSE
