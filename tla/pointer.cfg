SPECIFICATION Spec
CONSTANTS
  None = None
  MaxPosition = 3
  TapMaxMove = 1
  LongPress = 2
  DoubleTapWindow = 2
  Gain = 3
  Scale = 5
  MaxGestures = 3
  MaxFailures = 1
  QueueCap = 2
INVARIANTS
  TypeOK
  HeldOnlyInDrag
  OneMeaning
  CursorFollowsFinger
CHECK_DEADLOCK FALSE
