SPECIFICATION Spec
CONSTANTS
  MaxFrameBytes = 3
  SurfaceUnits = 4
  Scripts <- MCScripts
  Configs <- MCConfigs
  MaxWidth = 1920
INVARIANTS
  ReadAsWritten
  ScreenFits
CHECK_DEADLOCK FALSE
