SPECIFICATION Spec
CONSTANTS
  BatchMax = 3
  MaxEvents = 4
  MaxAcks = 0
  MaxSessions = 1
INVARIANTS
  MoveInOwnGesture
CHECK_DEADLOCK FALSE
